---- MODULE Spec2Model ----
(***************************************************************************)
(* A model of the Home Assistant core (homeassistant/__init__.py): the     *)
(* EventBus, the worker pool that runs its listeners, the StateMachine and *)
(* the ServiceRegistry.                                                    *)
(*                                                                         *)
(* Objects are modelled by identity where the code compares or shares      *)
(* them: a listener is a record [kind, id], an Event is its index in the   *)
(* log `fired`, a State is a reference into `heap`.                        *)
(***************************************************************************)
EXTENDS Integers, Sequences, FiniteSets, TLC

VARIABLES
    listeners,   \* EventBus._listeners: event type -> sequence of listeners
    queue,       \* the pool's pending jobs, in the order workers take them
    wjob,        \* per worker: the job it is executing, or NoJob
    wpc,         \* per worker: its position inside the job's function
    fired,       \* every Event object EventBus.fire has created, in order
    snapshot,    \* history: per fired event, _listeners when it was fired
    taken,       \* history: per fired event, how many of its jobs were taken
    onceType,    \* per onetime_listener wrapper: the event_type it closed over
    onceRun,     \* per onetime_listener wrapper: hasattr(wrapper, 'run')
    onceCalls,   \* history: per wrapper, how often it invoked its target
    actionCalls, \* history: the calls of the actions of track_change
    calls,       \* how many calls the threads outside the pool have made
    states,      \* StateMachine._states: lowercased entity id -> State object
    heap,        \* the State objects: reference -> its fields
    clock,       \* the wall clock, in ticks
    result,      \* the State objects the last read operation returned
    lastOp,      \* history: the last StateMachine call, and what it found
    services,    \* ServiceRegistry._services: domain -> service -> handler
    cur_id,      \* ServiceRegistry._cur_id
    callers,     \* the threads inside ServiceRegistry.call, and their locals
    hist,        \* history: per call_service event, what became of it
    main,        \* the thread inside block_till_stopped or stop: its position
    request_shutdown, \* block_till_stopped: the threading.Event of the gate
    pool_running, \* the pool has not been told to stop
    stopLog,     \* history: what the pool was doing when it was told to stop
    timer,       \* the Timer thread: its position and the locals of run
    time,        \* the wall clock the Timer reads, in timer ticks
    stop_event,  \* Timer._stop_event
    locks,       \* the three mutexes: the thread that holds each, or NoThread
    thr,         \* per thread inside a call: its position and its locals
    enq,         \* history: the event of each job, in the order of add_job
    mutLog       \* history: the stores and removes, in the order applied

busVars  == <<listeners, fired, snapshot>>
poolVars == <<queue, wjob, wpc, taken>>
onceVars == <<onceType, onceRun, onceCalls, actionCalls>>
smVars == <<states, heap, clock, result, lastOp>>
svcVars == <<services, cur_id, callers, hist>>
mainVars == <<main, request_shutdown, pool_running, stopLog>>
timerVars == <<timer, time, stop_event>>
lockVars == <<locks, thr, enq, mutLog>>
kernelVars == <<mainVars, timerVars, lockVars>>
vars == <<busVars, poolVars, onceVars, calls, smVars, svcVars, kernelVars>>

----------------------------------------------------------------------------
(* Constants of the program *)

MATCH_ALL == "*"
EVENT_TIME_CHANGED == "time_changed"
EVENT_STATE_CHANGED == "state_changed"
EVENT_CALL_SERVICE == "call_service"
EVENT_SERVICE_EXECUTED == "service_executed"
EVENT_SERVICE_REGISTERED == "service_registered"

MIN_WORKER_THREAD == 2

(* Bounds of the model *)
MaxCalls == 4        \* calls made by the threads outside the pool

Workers == 1..MIN_WORKER_THREAD
NoJob == [prio |-> -1, func |-> [kind |-> "none", id |-> 0], ev |-> 0]
NoData == [k \in {} |-> 0]

\* The listeners the environment registers with listen: one target function.
PlainListener == [kind |-> "plain", id |-> 0]
OnceListener(n) == [kind |-> "once", id |-> n]
BusEventTypes == {"x", "y"}
BusListenTypes == {MATCH_ALL, "x"}

----------------------------------------------------------------------------
(* JobPriority *)

EVENT_CALLBACK == 0
EVENT_SERVICE == 1
EVENT_STATE == 2
EVENT_TIME == 3
EVENT_DEFAULT == 4

\* Priorities with state_changed behind time_changed.
from_event_type_time_first(event_type) ==
    IF event_type = EVENT_TIME_CHANGED THEN EVENT_STATE
    ELSE IF event_type = EVENT_STATE_CHANGED THEN EVENT_TIME
    ELSE IF event_type = EVENT_CALL_SERVICE THEN EVENT_SERVICE
    ELSE IF event_type = EVENT_SERVICE_EXECUTED THEN EVENT_CALLBACK
    ELSE EVENT_DEFAULT

from_event_type(event_type) ==
    IF event_type = EVENT_TIME_CHANGED THEN EVENT_TIME
    ELSE IF event_type = EVENT_STATE_CHANGED THEN EVENT_STATE
    ELSE IF event_type = EVENT_CALL_SERVICE THEN EVENT_SERVICE
    ELSE IF event_type = EVENT_SERVICE_EXECUTED THEN EVENT_CALLBACK
    ELSE EVENT_DEFAULT

----------------------------------------------------------------------------
(* The worker pool (util.ThreadPool): a priority queue, FIFO within a      *)
(* priority, and workers that take its head.                               *)

\* add_job: the job goes behind every pending job of the same or a more
\* urgent priority.
add_job(q, job) ==
    LET before == SelectSeq(q, LAMBDA j : j.prio <= job.prio)
        after  == SelectSeq(q, LAMBDA j : j.prio > job.prio)
    IN  before \o <<job>> \o after

RECURSIVE add_jobs(_, _)
add_jobs(q, jobs) ==
    IF jobs = <<>> THEN q ELSE add_jobs(add_job(q, Head(jobs)), Tail(jobs))

\* A free worker takes the most urgent pending job.
TakeJob(w) ==
    /\ wpc[w] = "idle"
    /\ queue # <<>>
    /\ wjob' = [wjob EXCEPT ![w] = Head(queue)]
    /\ wpc' = [wpc EXCEPT ![w] = "start"]
    /\ queue' = Tail(queue)
    /\ taken' = IF Head(queue).func.kind = "exec" THEN taken
                 ELSE [taken EXCEPT ![Head(queue).ev] = @ + 1]
    /\ UNCHANGED <<busVars, onceVars, calls, smVars, svcVars, kernelVars>>

\* job_handler returns (the job's function returned or raised): the worker
\* is free again.
JobDone(w) ==
    /\ wjob' = [wjob EXCEPT ![w] = NoJob]
    /\ wpc' = [wpc EXCEPT ![w] = "idle"]

\* A worker that an exception in a job ends.
AfterExceptionDead == "dead"

\* job_handler, `except Exception`: the exception is logged and the worker
\* goes on.
AfterException == "idle"

\* job_handler returns after the job's function raised.
JobRaised(w) ==
    /\ wjob' = [wjob EXCEPT ![w] = NoJob]
    /\ wpc' = [wpc EXCEPT ![w] = AfterException]

----------------------------------------------------------------------------
(* EventBus *)

\* dict.get(key, [])
Get(ls, event_type) == IF event_type \in DOMAIN ls THEN ls[event_type] ELSE <<>>

\* A fire that forgets the MATCH_ALL listeners.
FireListenersTypeOnly(ls, event_type) == Get(ls, event_type)

\* A fire that puts the type's listeners before the MATCH_ALL listeners.
FireListenersTypeFirst(ls, event_type) == Get(ls, event_type) \o Get(ls, MATCH_ALL)

\* The copy of the current listeners fire takes: MATCH_ALL, then the type's.
FireListeners(ls, event_type) == Get(ls, MATCH_ALL) \o Get(ls, event_type)

\* One job per listener of the copy, all at the event type's priority; the
\* job's argument is the Event object created by this fire.
FireJobs(ls, event_type, ev) ==
    LET fl == FireListeners(ls, event_type)
    IN  [i \in 1..Len(fl) |->
            [prio |-> from_event_type(event_type), func |-> fl[i], ev |-> ev]]

\* EventBus.fire, all of it under the bus lock.
BusFire(event_type, event_data) ==
    /\ fired' = Append(fired, [event_type |-> event_type, data |-> event_data])
    /\ snapshot' = Append(snapshot, listeners)
    /\ taken' = Append(taken, 0)
    /\ queue' = add_jobs(queue, FireJobs(listeners, event_type, Len(fired) + 1))

\* EventBus.listen: append, or create the bucket.
ListenTable(ls, event_type, listener) ==
    IF event_type \in DOMAIN ls
    THEN [ls EXCEPT ![event_type] = Append(@, listener)]
    ELSE ls @@ (event_type :> <<listener>>)

\* A remove that drops every occurrence.
RemoveEvery(s, x) == SelectSeq(s, LAMBDA y : y # x)

\* list.remove: drop the first occurrence.
RECURSIVE RemoveFirst(_, _)
RemoveFirst(s, x) ==
    IF s = <<>> THEN <<>>
    ELSE IF Head(s) = x THEN Tail(s)
    ELSE <<Head(s)>> \o RemoveFirst(Tail(s), x)

Contains(s, x) == \E i \in 1..Len(s) : s[i] = x

\* EventBus.remove_listener: KeyError and ValueError are swallowed.
RemoveTable(ls, event_type, listener) ==
    IF event_type \notin DOMAIN ls THEN ls
    ELSE IF ~Contains(ls[event_type], listener) THEN ls
    ELSE LET rest == RemoveFirst(ls[event_type], listener)
         IN  IF rest = <<>>
             THEN [k \in DOMAIN ls \ {event_type} |-> ls[k]]
             ELSE [ls EXCEPT ![event_type] = rest]

----------------------------------------------------------------------------
(* The environment of the bus: threads calling fire, listen, listen_once   *)
(* and remove_listener.                                                    *)

Fire(event_type) ==
    /\ calls < MaxCalls
    /\ calls' = calls + 1
    /\ BusFire(event_type, NoData)
    /\ UNCHANGED <<listeners, wjob, wpc, onceVars, smVars, svcVars, kernelVars>>

Listen(event_type) ==
    /\ calls < MaxCalls
    /\ calls' = calls + 1
    /\ listeners' = ListenTable(listeners, event_type, PlainListener)
    /\ UNCHANGED <<fired, snapshot, poolVars, onceVars, smVars, svcVars, kernelVars>>

ListenOnce(event_type) ==
    LET n == Len(onceType) + 1
    IN  /\ calls < MaxCalls
        /\ calls' = calls + 1
        /\ onceType' = Append(onceType, event_type)
        /\ onceRun' = Append(onceRun, FALSE)
        /\ onceCalls' = Append(onceCalls, 0)
        /\ listeners' = ListenTable(listeners, event_type, OnceListener(n))
        /\ UNCHANGED <<fired, snapshot, poolVars, actionCalls, smVars, svcVars, kernelVars>>

RemoveListener(event_type) ==
    /\ calls < MaxCalls
    /\ calls' = calls + 1
    /\ listeners' = RemoveTable(listeners, event_type, PlainListener)
    /\ UNCHANGED <<fired, snapshot, poolVars, onceVars, smVars, svcVars, kernelVars>>

----------------------------------------------------------------------------
(* Listener bodies, run by a worker *)

\* A listener registered with listen: it runs and returns.
RunPlain(w) ==
    /\ wpc[w] = "start"
    /\ wjob[w].func.kind = "plain"
    /\ JobDone(w)
    /\ UNCHANGED <<calls, busVars, queue, taken, onceVars, smVars, svcVars, kernelVars>>

\* A listener that raises an exception.
FailingListener == [kind |-> "failing", id |-> 0]

ListenFailing(event_type) ==
    /\ calls < MaxCalls
    /\ calls' = calls + 1
    /\ listeners' = ListenTable(listeners, event_type, FailingListener)
    /\ UNCHANGED <<fired, snapshot, poolVars, onceVars, smVars, svcVars, kernelVars>>

\* job_handler: func(arg) raises
RunFailing(w) ==
    /\ wpc[w] = "start"
    /\ wjob[w].func.kind = "failing"
    /\ JobRaised(w)
    /\ UNCHANGED <<calls, busVars, queue, taken, onceVars, smVars, svcVars, kernelVars>>

\* onetime_listener: `if not hasattr(onetime_listener, 'run')`
OnceCheck(w) ==
    /\ wpc[w] = "start"
    /\ wjob[w].func.kind = "once"
    /\ IF onceRun[wjob[w].func.id]
       THEN JobDone(w)
       ELSE /\ wpc' = [wpc EXCEPT ![w] = "setrun"]
            /\ UNCHANGED wjob
    /\ UNCHANGED <<calls, busVars, queue, taken, onceVars, smVars, svcVars, kernelVars>>

\* onetime_listener: `onetime_listener.run = True`
OnceSetRun(w) ==
    /\ wpc[w] = "setrun"
    /\ wjob[w].func.kind = "once"
    /\ onceRun' = [onceRun EXCEPT ![wjob[w].func.id] = TRUE]
    /\ wpc' = [wpc EXCEPT ![w] = "remove"]
    /\ UNCHANGED <<calls, busVars, queue, wjob, taken, onceType, onceCalls, actionCalls,
                   smVars, svcVars, kernelVars>>

\* onetime_listener: `self.remove_listener(event_type, onetime_listener)`
OnceRemove(w) ==
    /\ wpc[w] = "remove"
    /\ wjob[w].func.kind = "once"
    /\ listeners' = RemoveTable(listeners, onceType[wjob[w].func.id],
                                wjob[w].func)
    /\ wpc' = [wpc EXCEPT ![w] = "invoke"]
    /\ UNCHANGED <<calls, fired, snapshot, queue, wjob, taken, onceVars,
                   smVars, svcVars, kernelVars>>

\* onetime_listener: `listener(event)`
OnceInvoke(w) ==
    /\ wpc[w] = "invoke"
    /\ wjob[w].func.kind = "once"
    /\ onceCalls' = [onceCalls EXCEPT ![wjob[w].func.id] = @ + 1]
    /\ JobDone(w)
    /\ UNCHANGED <<calls, busVars, queue, taken, onceType, onceRun, actionCalls,
                   smVars, svcVars, kernelVars>>

----------------------------------------------------------------------------
(* HomeAssistant.track_point_in_time. The wrapper point_in_time_listener   *)
(* is numbered like the wrappers of listen_once: onceRun[n] is its `run`   *)
(* attribute, onceCalls[n] counts the calls of the action it wraps.        *)

ATTR_NOW == "now"

\* The points in time tracked and the times the time_changed events carry.
PointInputs == {2}
NowInputs == {1, 2}

PointListener(n, point_in_time) ==
    [kind |-> "point", id |-> n, point_in_time |-> point_in_time]

\* track_point_in_time: bus.listen(EVENT_TIME_CHANGED, point_in_time_listener)
TrackPointInTime(point_in_time) ==
    LET n == Len(onceType) + 1
    IN  /\ calls < MaxCalls
        /\ calls' = calls + 1
        /\ onceType' = Append(onceType, EVENT_TIME_CHANGED)
        /\ onceRun' = Append(onceRun, FALSE)
        /\ onceCalls' = Append(onceCalls, 0)
        /\ listeners' = ListenTable(listeners, EVENT_TIME_CHANGED,
                                    PointListener(n, point_in_time))
        /\ UNCHANGED <<fired, snapshot, poolVars, actionCalls, smVars, svcVars, kernelVars>>

\* A thread fires time_changed with the time it read.
FireTimeChanged(now) ==
    /\ calls < MaxCalls
    /\ calls' = calls + 1
    /\ BusFire(EVENT_TIME_CHANGED, (ATTR_NOW :> now))
    /\ UNCHANGED <<listeners, wjob, wpc, onceVars, smVars, svcVars, kernelVars>>

\* point_in_time_listener:
\* `now >= point_in_time and not hasattr(point_in_time_listener, 'run')`
PointDue(w) ==
    /\ fired[wjob[w].ev].data[ATTR_NOW] >= wjob[w].func.point_in_time
    /\ ~onceRun[wjob[w].func.id]

\* point_in_time_listener: read now and test the guard
PointCheck(w) ==
    /\ wpc[w] = "start"
    /\ wjob[w].func.kind = "point"
    /\ IF PointDue(w)
       THEN /\ wpc' = [wpc EXCEPT ![w] = "setrun"]
            /\ UNCHANGED wjob
       ELSE JobDone(w)
    /\ UNCHANGED <<calls, busVars, queue, taken, onceVars, smVars, svcVars, kernelVars>>

\* point_in_time_listener: `point_in_time_listener.run = True`
PointSetRun(w) ==
    /\ wpc[w] = "setrun"
    /\ wjob[w].func.kind = "point"
    /\ onceRun' = [onceRun EXCEPT ![wjob[w].func.id] = TRUE]
    /\ wpc' = [wpc EXCEPT ![w] = "remove"]
    /\ UNCHANGED <<calls, busVars, queue, wjob, taken, onceType, onceCalls, actionCalls,
                   smVars, svcVars, kernelVars>>

\* point_in_time_listener:
\* `self.bus.remove_listener(EVENT_TIME_CHANGED, point_in_time_listener)`
PointRemove(w) ==
    /\ wpc[w] = "remove"
    /\ wjob[w].func.kind = "point"
    /\ listeners' = RemoveTable(listeners, EVENT_TIME_CHANGED, wjob[w].func)
    /\ wpc' = [wpc EXCEPT ![w] = "invoke"]
    /\ UNCHANGED <<calls, fired, snapshot, queue, wjob, taken, onceVars,
                   smVars, svcVars, kernelVars>>

\* point_in_time_listener: `action(now)`
PointInvoke(w) ==
    /\ wpc[w] = "invoke"
    /\ wjob[w].func.kind = "point"
    /\ onceCalls' = [onceCalls EXCEPT ![wjob[w].func.id] = @ + 1]
    /\ JobDone(w)
    /\ UNCHANGED <<calls, busVars, queue, taken, onceType, onceRun, actionCalls,
                   smVars, svcVars, kernelVars>>

----------------------------------------------------------------------------
(* HomeAssistant.stop, run by the thread `main`. *)

EVENT_HOMEASSISTANT_START == "homeassistant_start"
EVENT_HOMEASSISTANT_STOP == "homeassistant_stop"

StopEventTypes == {"x"}
StopListenTypes == {MATCH_ALL, EVENT_HOMEASSISTANT_STOP}

\* The jobs of fire k that have not finished: pending or inside a worker.
Unfinished(k) ==
    Len(SelectSeq(queue, LAMBDA j : j.ev = k))
    + Cardinality({w \in Workers : wjob[w].ev = k})

\* A stop that tells the pool to stop right after the fire.
AfterStopFireNoWait == "pool_stop"

\* stop: after the fire comes `self.pool.block_till_done()`
AfterStopFire == "wait"

\* stop: `self.bus.fire(EVENT_HOMEASSISTANT_STOP)`
StopFire ==
    /\ main \in {"idle", "started", "stop"}
    /\ BusFire(EVENT_HOMEASSISTANT_STOP, NoData)
    /\ main' = AfterStopFire
    /\ UNCHANGED <<listeners, wjob, wpc, onceVars, calls, smVars, svcVars,
                   request_shutdown, pool_running, stopLog, timerVars, lockVars>>

\* ThreadPool.block_till_done returns: the queue is empty and no worker is
\* executing a job.
StopBlockTillDone ==
    /\ main = "wait"
    /\ queue = <<>>
    /\ \A w \in Workers : wpc[w] = "idle"
    /\ main' = "pool_stop"
    /\ UNCHANGED <<busVars, poolVars, onceVars, calls, smVars, svcVars,
                   request_shutdown, pool_running, stopLog, timerVars, lockVars>>

\* stop: `self.pool.stop()`
StopPool ==
    /\ main = "pool_stop"
    /\ pool_running' = FALSE
    /\ stopLog' = Append(stopLog,
           [k \in 1..Len(fired) |->
               [event_type |-> fired[k].event_type, unfinished |-> Unfinished(k)]])
    /\ main' = "stopped"
    /\ UNCHANGED <<busVars, poolVars, onceVars, calls, smVars, svcVars,
                   request_shutdown, timerVars, lockVars>>

----------------------------------------------------------------------------
(* Timer.run. A datetime is a count of timer ticks; its second field and   *)
(* its microseconds are read off the count.                                *)

TIMER_INTERVAL == 1

TimerResolution == 1     \* timer ticks per half second
MaxDelay == 1            \* ticks between two statements of run, at most
MaxOvershoot == 1        \* ticks a sleep lasts longer than requested, at most
MaxTimerFires == 2       \* time_changed events the Timer fires

TimerTicksPerSecond == 2 * TimerResolution
SecondsPerMinute == 60

\* The intervals a Timer is constructed with: `60 % self.interval == 0`.
TimerIntervals == {1, 2, 3, 4, 5, 6, 10, 12, 15, 20, 30, 60}

\* now.second and now.microsecond (in ticks)
Second(t) == (t \div TimerTicksPerSecond) % SecondsPerMinute
Microsecond(t) == t % TimerTicksPerSecond

NoTimer == [pc |-> "unstarted", interval |-> TIMER_INTERVAL, now |-> 0,
            last_fired_on_second |-> -1]

\* A test that forgets the second of the last event.
MustSleepUnaligned(now, interval, last_fired_on_second) ==
    Second(now) % interval # 0

\* run: `now.second % interval or now.second == last_fired_on_second`
MustSleep(now, interval, last_fired_on_second) ==
    \/ Second(now) % interval # 0
    \/ Second(now) = last_fired_on_second

\* run: slp_seconds, in ticks
SlpTicks(now, interval) ==
    (interval - (Second(now) % interval)) * TimerTicksPerSecond
    + TimerResolution - Microsecond(now)

TimerFires ==
    Len(SelectSeq(fired, LAMBDA e : e.event_type = EVENT_TIME_CHANGED))

\* run: `while not self._stop_event.isSet()` goes on, `now = calc_now()`
\* and the test
TimerRead ==
    /\ timer.pc = "loop"
    /\ ~stop_event
    /\ TimerFires < MaxTimerFires
    /\ \E d \in 0..MaxDelay :
           /\ time' = time + d
           /\ timer' = [timer EXCEPT
                  !.now = time + d,
                  !.pc = IF MustSleep(time + d, timer.interval,
                                      timer.last_fired_on_second)
                         THEN "sleep" ELSE "fire"]
    /\ UNCHANGED <<busVars, poolVars, onceVars, calls, smVars, svcVars,
                   mainVars, stop_event, lockVars>>

\* run: `time.sleep(slp_seconds)` and `now = calc_now()`
TimerSleep ==
    /\ timer.pc = "sleep"
    /\ \E o \in 0..MaxOvershoot :
           /\ time' = time + SlpTicks(timer.now, timer.interval) + o
           /\ timer' = [timer EXCEPT
                  !.now = time + SlpTicks(timer.now, timer.interval) + o,
                  !.pc = "fire"]
    /\ UNCHANGED <<busVars, poolVars, onceVars, calls, smVars, svcVars,
                   mainVars, stop_event, lockVars>>

\* run: `last_fired_on_second = now.second` and the fire of time_changed
TimerFire ==
    /\ timer.pc = "fire"
    /\ timer' = [timer EXCEPT !.last_fired_on_second = Second(timer.now),
                              !.pc = "loop"]
    /\ BusFire(EVENT_TIME_CHANGED, (ATTR_NOW :> timer.now))
    /\ UNCHANGED <<listeners, wjob, wpc, onceVars, calls, smVars, svcVars,
                   mainVars, time, stop_event, lockVars>>

----------------------------------------------------------------------------
(* HomeAssistant.start and the life of the Timer thread. The two           *)
(* listen_once wrappers of the Timer are numbered like the others.         *)

TimerStartListener(n) == [kind |-> "timer_start", id |-> n]
TimerStopListener(n) == [kind |-> "timer_stop", id |-> n]

\* start: `Timer(self)`, whose __init__ calls
\* bus.listen_once(EVENT_HOMEASSISTANT_START, lambda event: self.start())
HassStartTimer ==
    LET n == Len(onceType) + 1
    IN  /\ main = "idle"
        /\ main' = "start_fire"
        /\ onceType' = Append(onceType, EVENT_HOMEASSISTANT_START)
        /\ onceRun' = Append(onceRun, FALSE)
        /\ onceCalls' = Append(onceCalls, 0)
        /\ listeners' = ListenTable(listeners, EVENT_HOMEASSISTANT_START,
                                    TimerStartListener(n))
        /\ UNCHANGED <<fired, snapshot, poolVars, actionCalls, calls, smVars,
                       svcVars, request_shutdown, pool_running, stopLog,
                       timerVars, lockVars>>

\* start: `self.bus.fire(EVENT_HOMEASSISTANT_START)`
HassStartFire ==
    /\ main = "start_fire"
    /\ main' = "started"
    /\ BusFire(EVENT_HOMEASSISTANT_START, NoData)
    /\ UNCHANGED <<listeners, wjob, wpc, onceVars, calls, smVars, svcVars,
                   request_shutdown, pool_running, stopLog, timerVars, lockVars>>

\* The onetime_listener of the Timer's start listener, run by a worker:
\* `self.start()` starts the thread, whose run has yet to begin.
RunTimerStart(w) ==
    LET l == wjob[w].func
    IN  /\ wpc[w] = "start"
        /\ l.kind = "timer_start"
        /\ IF onceRun[l.id]
           THEN UNCHANGED <<onceVars, listeners, timer>>
           ELSE /\ onceRun' = [onceRun EXCEPT ![l.id] = TRUE]
                /\ onceCalls' = [onceCalls EXCEPT ![l.id] = @ + 1]
                /\ listeners' = RemoveTable(listeners, onceType[l.id], l)
                /\ timer' = [timer EXCEPT !.pc = "register"]
                /\ UNCHANGED <<onceType, actionCalls>>
        /\ JobDone(w)
        /\ UNCHANGED <<fired, snapshot, queue, taken, calls, smVars, svcVars,
                       mainVars, time, stop_event, lockVars>>

\* run: bus.listen_once(EVENT_HOMEASSISTANT_STOP,
\*                      lambda event: self._stop_event.set())
TimerRegister ==
    LET n == Len(onceType) + 1
    IN  /\ timer.pc = "register"
        /\ timer' = [timer EXCEPT !.pc = "loop"]
        /\ onceType' = Append(onceType, EVENT_HOMEASSISTANT_STOP)
        /\ onceRun' = Append(onceRun, FALSE)
        /\ onceCalls' = Append(onceCalls, 0)
        /\ listeners' = ListenTable(listeners, EVENT_HOMEASSISTANT_STOP,
                                    TimerStopListener(n))
        /\ UNCHANGED <<fired, snapshot, poolVars, actionCalls, calls, smVars,
                       svcVars, mainVars, time, stop_event, lockVars>>

\* The onetime_listener of the Timer's stop listener, run by a worker:
\* `self._stop_event.set()`
RunTimerStop(w) ==
    LET l == wjob[w].func
    IN  /\ wpc[w] = "start"
        /\ l.kind = "timer_stop"
        /\ IF onceRun[l.id]
           THEN UNCHANGED <<onceVars, listeners, stop_event>>
           ELSE /\ onceRun' = [onceRun EXCEPT ![l.id] = TRUE]
                /\ onceCalls' = [onceCalls EXCEPT ![l.id] = @ + 1]
                /\ listeners' = RemoveTable(listeners, onceType[l.id], l)
                /\ stop_event' = TRUE
                /\ UNCHANGED <<onceType, actionCalls>>
        /\ JobDone(w)
        /\ UNCHANGED <<fired, snapshot, queue, taken, calls, smVars, svcVars,
                       mainVars, timer, time, lockVars>>

\* run: `while not self._stop_event.isSet()` ends the loop and the thread
TimerExit ==
    /\ timer.pc = "loop"
    /\ stop_event
    /\ timer' = [timer EXCEPT !.pc = "exited"]
    /\ UNCHANGED <<busVars, poolVars, onceVars, calls, smVars, svcVars,
                   mainVars, time, stop_event, lockVars>>

----------------------------------------------------------------------------
(* State and StateMachine *)

\* Python's None, where a State reference (1, 2, ...) or a time is expected.
None == 0
NoTime == -1

\* The wall clock counts ticks; a datetime's microseconds are its ticks
\* within the second.
TicksPerSecond == 2
MaxClock == 3          \* the clock stops here
MaxStateCalls == 3     \* StateMachine calls made by the threads outside

\* util.strip_microseconds
strip_microseconds(t) == t - (t % TicksPerSecond)

\* Entity ids are sequences of characters.
LowerChar(c) == IF c = "A" THEN "a" ELSE IF c = "B" THEN "b" ELSE c
Lower(s) == [i \in 1..Len(s) |-> LowerChar(s[i])]
WordChars == {"a", "b", "A", "B", "_"}

\* ^(\w+)\.(\w+) up to the end of the string
WordDotWord(s) ==
    \E d \in 2..(Len(s) - 1) :
        /\ s[d] = "."
        /\ \A i \in (1..Len(s)) \ {d} : s[i] \in WordChars

\* ENTITY_ID_PATTERN.match: ^(\w+)\.(\w+)$, where $ matches at the end of
\* the string and also just before a newline that ends the string.
EntityIdMatches(s) ==
    \/ WordDotWord(s)
    \/ /\ Len(s) >= 1
       /\ s[Len(s)] = "\n"
       /\ WordDotWord(SubSeq(s, 1, Len(s) - 1))

\* The ids, states and attributes callers pass in. An `attributes` argument
\* is a dict or None.
EntityIdInputs == {<<"a", ".", "b">>, <<"A", ".", "b">>, <<"a", "b">>}
EntityIdInputsNewline == EntityIdInputs \cup {<<"a", ".", "b", "\n">>}
StateInputs == {[type |-> "str", value |-> "on"],
                [type |-> "str", value |-> "1"],
                [type |-> "int", value |-> 1]}
AttrNone == [given |-> FALSE, dict |-> NoData]
AttrBri == [given |-> TRUE, dict |-> ("bri" :> 128)]
AttrInputs == {AttrNone, AttrBri}

\* `attributes or {}`: None and the empty dict both give an empty dict.
AttrOrEmpty(a) == IF a.given /\ a.dict # NoData THEN a.dict ELSE NoData

\* str(new_state): a str is itself, an int its decimal digits.
Digits == <<"0", "1", "2", "3", "4", "5", "6", "7", "8", "9">>
Str(x) == IF x.type = "str" THEN x.value ELSE Digits[x.value + 1]

\* A State whose last_updated is the carried last_changed, not now.
StateInitStaleUpdated(entity_id, state, attributes, last_changed, now) ==
    [entity_id |-> Lower(entity_id),
     state |-> state,
     attributes |-> attributes,
     last_updated |-> IF last_changed # NoTime THEN last_changed ELSE now,
     last_changed |-> strip_microseconds(
                        IF last_changed # NoTime THEN last_changed ELSE now)]

\* State.__init__ past the id check: the new object's fields.
StateInit(entity_id, state, attributes, last_changed, now) ==
    [entity_id |-> Lower(entity_id),
     state |-> state,
     attributes |-> attributes,
     last_updated |-> now,
     last_changed |-> strip_microseconds(
                        IF last_changed # NoTime THEN last_changed ELSE now)]

\* State.copy: a new State of the same id, state and last_changed, with a
\* new dict of the same attributes.
StateCopy(rec, now) ==
    StateInit(rec.entity_id, rec.state, rec.attributes, rec.last_changed, now)

\* The smallest reference no object of h has.
NewRef(h) == CHOOSE r \in 1..(Cardinality(DOMAIN h) + 1) : r \notin DOMAIN h

\* The State objects an event's data refers to.
EventRefs(f) ==
    UNION {{f[k].data[key] : key \in DOMAIN f[k].data \cap {"new_state", "old_state"}}
           : k \in 1..Len(f)}

Range(f) == {f[k] : k \in DOMAIN f}

\* Objects nothing refers to any more are gone.
Collect(h, roots) == [r \in DOMAIN h \cap roots |-> h[r]]

\* dict.get(key): the State stored under key, or None.
StatesGet(key) == IF key \in DOMAIN states THEN states[key] ELSE None

NoOp == [op |-> "none", entity_id |-> <<>>, state |-> "", attributes |-> NoData,
         time |-> 0, old |-> None, oldRec |-> NoData, nfired |-> 0,
         raised |-> FALSE, input |-> <<>>, ret |-> FALSE]

\* A set that always stores.
ShouldStoreAlways(same_state, same_attr) == TRUE

\* StateMachine.set: `if not (same_state and same_attr)`
ShouldStore(same_state, same_attr) == ~(same_state /\ same_attr)

\* A set that never carries last_changed over.
SetLastChangedNever(same_state, old_state) == NoTime

\* StateMachine.set: `old_state.last_changed if same_state else None`
SetLastChanged(same_state, old_state) ==
    IF same_state THEN heap[old_state].last_changed ELSE NoTime

\* Event data that never names the old state.
StateChangedDataNoOld(entity_id, state, old_state) ==
    ("entity_id" :> entity_id) @@ ("new_state" :> state)

\* StateMachine.set: the data of the state_changed event; a State object is
\* always truthy.
StateChangedData(entity_id, state, old_state) ==
    ("entity_id" :> entity_id) @@ ("new_state" :> state)
    @@ (IF old_state # None THEN ("old_state" :> old_state) ELSE NoData)

\* StateMachine.set
Set(entity_id_in, new_state_in, attributes_in) ==
    LET entity_id == Lower(entity_id_in)
        new_state == Str(new_state_in)
        attributes == AttrOrEmpty(attributes_in)
        old_state == StatesGet(entity_id)
        is_existing == old_state # None
        same_state == is_existing /\ heap[old_state].state = new_state
        same_attr == is_existing /\ heap[old_state].attributes = attributes
        state == NewRef(heap)
        op == [op |-> "set", entity_id |-> entity_id, state |-> new_state,
               attributes |-> attributes, time |-> clock, old |-> old_state,
               oldRec |-> IF is_existing THEN heap[old_state] ELSE NoData,
               nfired |-> Len(fired), raised |-> FALSE,
               input |-> entity_id_in, ret |-> FALSE]
    IN  /\ calls < MaxStateCalls
        /\ calls' = calls + 1
        /\ IF ~ShouldStore(same_state, same_attr)
           THEN /\ lastOp' = op
                /\ UNCHANGED <<states, heap, fired, snapshot, queue, taken, kernelVars>>
           ELSE IF ~EntityIdMatches(entity_id)
           THEN \* State.__init__ raises InvalidEntityFormatError
                /\ lastOp' = [op EXCEPT !.raised = TRUE]
                /\ UNCHANGED <<states, heap, fired, snapshot, queue, taken, kernelVars>>
           ELSE /\ lastOp' = op
                /\ heap' = heap @@ (state :>
                       StateInit(entity_id, new_state, attributes,
                                 SetLastChanged(same_state, old_state), clock))
                /\ states' = [k \in DOMAIN states \cup {entity_id} |->
                                 IF k = entity_id THEN state ELSE states[k]]
                /\ BusFire(EVENT_STATE_CHANGED,
                           StateChangedData(entity_id, state, old_state))
        /\ UNCHANGED <<listeners, wjob, wpc, onceVars, clock, result, svcVars, kernelVars>>

\* StateMachine.remove
Remove(entity_id_in) ==
    LET entity_id == Lower(entity_id_in)
    IN  /\ calls < MaxStateCalls
        /\ calls' = calls + 1
        /\ states' = [k \in DOMAIN states \ {entity_id} |-> states[k]]
        /\ lastOp' = [NoOp EXCEPT !.op = "remove", !.input = entity_id_in,
                                  !.old = StatesGet(entity_id),
                                  !.ret = (StatesGet(entity_id) # None)]
        /\ UNCHANGED <<busVars, poolVars, onceVars, heap, clock, result,
                       svcVars, kernelVars>>

\* What a read leaves on the heap: the caller drops what it held before.
Returned(h, refs) ==
    /\ result' = refs
    /\ heap' = Collect(h, Range(states) \cup refs \cup EventRefs(fired))

\* StateMachine.get
StateGet(entity_id_in) ==
    LET state == StatesGet(Lower(entity_id_in))
        copy == NewRef(heap)
    IN  /\ calls < MaxStateCalls
        /\ calls' = calls + 1
        /\ IF state # None
           THEN Returned(heap @@ (copy :> StateCopy(heap[state], clock)), {copy})
           ELSE Returned(heap, {})
        /\ lastOp' = [NoOp EXCEPT !.op = "get", !.input = entity_id_in,
                                  !.old = state]
        /\ UNCHANGED <<busVars, poolVars, onceVars, states, clock, svcVars, kernelVars>>

\* StateMachine.is_state
StateIsState(entity_id_in, state) ==
    LET entity_id == Lower(entity_id_in)
    IN  /\ calls < MaxStateCalls
        /\ calls' = calls + 1
        /\ lastOp' = [NoOp EXCEPT !.op = "is_state", !.input = entity_id_in,
                                  !.state = state,
                                  !.old = StatesGet(entity_id),
                                  !.ret = (/\ entity_id \in DOMAIN states
                                           /\ heap[states[entity_id]].state = state)]
        /\ UNCHANGED <<busVars, poolVars, onceVars, states, heap, clock, result,
                       svcVars, kernelVars>>

\* The copies of the objects `refs`, each under a reference of its own.
RECURSIVE CopyAll(_, _, _)
CopyAll(h, refs, now) ==
    IF refs = {} THEN [heap |-> h, copies |-> {}]
    ELSE LET r == CHOOSE r \in refs : TRUE
             copy == NewRef(h)
             rest == CopyAll(h @@ (copy :> StateCopy(h[r], now)), refs \ {r}, now)
         IN  [heap |-> rest.heap, copies |-> rest.copies \cup {copy}]

\* StateMachine.all
StateAll ==
    LET got == CopyAll(heap, Range(states), clock)
    IN  /\ calls < MaxStateCalls
        /\ calls' = calls + 1
        /\ Returned(got.heap, got.copies)
        /\ lastOp' = [NoOp EXCEPT !.op = "all"]
        /\ UNCHANGED <<busVars, poolVars, onceVars, states, clock, svcVars, kernelVars>>

\* StateMachine.get_since: the stored objects themselves.
GetSinceStates(point_in_time) ==
    [heap |-> heap,
     copies |-> {r \in Range(states) :
                    heap[r].last_updated >= strip_microseconds(point_in_time)}]

StateGetSince(point_in_time) ==
    LET got == GetSinceStates(point_in_time)
    IN  /\ calls < MaxStateCalls
        /\ calls' = calls + 1
        /\ Returned(got.heap, got.copies)
        /\ lastOp' = [NoOp EXCEPT !.op = "get_since"]
        /\ UNCHANGED <<busVars, poolVars, onceVars, states, clock, svcVars, kernelVars>>

\* A caller assigns to the state of an object a read returned to it.
MutateReturned(r, new_state) ==
    /\ calls < MaxStateCalls
    /\ calls' = calls + 1
    /\ r \in result
    /\ heap' = [heap EXCEPT ![r].state = new_state]
    /\ lastOp' = [NoOp EXCEPT !.op = "mutate"]
    /\ UNCHANGED <<busVars, poolVars, onceVars, states, clock, result,
                   svcVars, kernelVars>>

\* Time passes.
Tick ==
    /\ clock < MaxClock
    /\ clock' = clock + 1
    /\ UNCHANGED <<busVars, poolVars, onceVars, calls, states, heap, result,
                   lastOp, svcVars, kernelVars>>

----------------------------------------------------------------------------
(* StateMachine.track_change. A parameter (entity_ids, from_state,         *)
(* to_state) is None, a string or a list: its type and its items, a string *)
(* being its own single item. A value compared with a pattern is a state   *)
(* string or None.                                                         *)

PyNone == [type |-> "none", value |-> ""]
PyStr(s) == [type |-> "str", value |-> s]

ParamNone == [type |-> "none", items |-> <<>>]
ParamStr(s) == [type |-> "str", items |-> <<s>>]
ParamList(l) == [type |-> "list", items |-> l]

\* The pattern that is MATCH_ALL, and the pattern that is a tuple.
PatternAll == [all |-> TRUE, items |-> <<>>]
PatternTuple(items) == [all |-> FALSE, items |-> items]

\* _process_match_param
_process_match_param(parameter) ==
    IF parameter.type = "none"
       \/ (parameter.type = "str" /\ parameter.items = <<MATCH_ALL>>)
    THEN PatternAll
    ELSE PatternTuple(parameter.items)

\* A matcher for which None is in every tuple.
_matcher_none_in_tuple(subject, pattern) ==
    \/ pattern.all
    \/ subject.type = "none"
    \/ \E i \in 1..Len(pattern.items) :
           subject.type = "str" /\ subject.value = pattern.items[i]

\* _matcher: `MATCH_ALL == pattern or subject in pattern`
_matcher(subject, pattern) ==
    \/ pattern.all
    \/ \E i \in 1..Len(pattern.items) :
           subject.type = "str" /\ subject.value = pattern.items[i]

\* track_change: the lowercased tuple of entity ids
TrackedIds(entity_ids) ==
    [i \in 1..Len(entity_ids.items) |-> Lower(entity_ids.items[i])]

\* The function object state_listener and what it closed over.
StateListener(n, entity_ids, from_state, to_state) ==
    [kind |-> "track", id |-> n,
     entity_ids |-> TrackedIds(entity_ids),
     from_state |-> _process_match_param(from_state),
     to_state |-> _process_match_param(to_state)]

TrackedInputs == {ParamStr(<<"A", ".", "b">>),
                  ParamList(<< <<"a", ".", "b">>, <<"b", ".", "a">> >>)}
FromInputs == {ParamNone, ParamList(<<"on">>)}
ToInputs == {ParamNone, ParamStr(MATCH_ALL), ParamStr("off")}
TrackEntityIds == {<<"a", ".", "b">>, <<"b", ".", "a">>, <<"b", ".", "b">>}
TrackStates == {[type |-> "str", value |-> "on"], [type |-> "str", value |-> "off"]}

\* StateMachine.track_change
TrackChange(entity_ids, from_state, to_state) ==
    LET n == Len(onceType) + 1
    IN  /\ calls < MaxStateCalls
        /\ calls' = calls + 1
        /\ onceType' = Append(onceType, EVENT_STATE_CHANGED)
        /\ onceRun' = Append(onceRun, FALSE)
        /\ onceCalls' = Append(onceCalls, 0)
        /\ listeners' = ListenTable(listeners, EVENT_STATE_CHANGED,
                            StateListener(n, entity_ids, from_state, to_state))
        /\ UNCHANGED <<fired, snapshot, poolVars, actionCalls, smVars, svcVars, kernelVars>>

\* state_listener: the old state's value, or None
OldStateValue(data) ==
    IF "old_state" \in DOMAIN data
    THEN PyStr(heap[data["old_state"]].state)
    ELSE PyNone

\* state_listener: event.data.get('old_state')
DataGetOldState(data) ==
    IF "old_state" \in DOMAIN data THEN data["old_state"] ELSE None

\* state_listener, run by a worker
RunStateListener(w) ==
    LET l == wjob[w].func
        data == fired[wjob[w].ev].data
    IN  /\ wpc[w] = "start"
        /\ l.kind = "track"
        /\ IF /\ Contains(l.entity_ids, data["entity_id"])
              /\ _matcher(OldStateValue(data), l.from_state)
              /\ _matcher(PyStr(heap[data["new_state"]].state), l.to_state)
           THEN /\ actionCalls' = actionCalls \cup
                       {[id |-> l.id, ev |-> wjob[w].ev,
                         entity_id |-> data["entity_id"],
                         old_state |-> DataGetOldState(data),
                         new_state |-> data["new_state"]]}
                /\ onceCalls' = [onceCalls EXCEPT ![l.id] = @ + 1]
           ELSE UNCHANGED <<actionCalls, onceCalls, kernelVars>>
        /\ JobDone(w)
        /\ UNCHANGED <<calls, busVars, queue, taken, onceType, onceRun, smVars,
                       svcVars, kernelVars>>

----------------------------------------------------------------------------
(* ServiceRegistry *)

MaxServiceCalls == 1   \* calls of the service made one after the other
MaxRegisters == 1      \* register calls
MaxThreads == 2        \* threads inside ServiceRegistry.call at a time

\* The one service of the model, and its handlers: 1 returns, 2 raises.
TestDomain == "test"
TestService == "ping"
Handlers == {1, 2}
HandlerRaises(handler) == handler = 2

\* bus.listen(EVENT_CALL_SERVICE, self._event_to_service_call)
EventToServiceCallListener == [kind |-> "e2s", id |-> 0]

\* The service_executed closure of the c-th call.
ServiceExecutedListener(c) == [kind |-> "executed", id |-> c]

NewCaller(blocking) ==
    [pc |-> "load", blocking |-> blocking, tmp |-> 0, call_id |-> <<>>,
     gate |-> FALSE, ret |-> "none", observed |-> FALSE]

HasService(domain, service) ==
    domain \in DOMAIN services /\ service \in DOMAIN services[domain]

\* ServiceRegistry.register, all of it under the registry lock.
Register(domain, service, service_func) ==
    /\ calls < MaxRegisters
    /\ calls' = calls + 1
    /\ services' =
           IF domain \in DOMAIN services
           THEN [services EXCEPT ![domain] =
                    [sv \in DOMAIN @ \cup {service} |->
                        IF sv = service THEN service_func ELSE @[sv]]]
           ELSE services @@ (domain :> (service :> service_func))
    /\ BusFire(EVENT_SERVICE_REGISTERED,
               ("domain" :> domain) @@ ("service" :> service))
    /\ UNCHANGED <<listeners, wjob, wpc, onceVars, smVars, cur_id, callers, hist, kernelVars>>

\* A thread enters ServiceRegistry.call(TestDomain, TestService, blocking=...)
\* once the calls before it have returned.
CallEnter(blocking) ==
    /\ Len(callers) < MaxServiceCalls
    /\ \A c \in 1..Len(callers) : callers[c].pc = "done"
    /\ callers' = Append(callers, NewCaller(blocking))
    /\ UNCHANGED <<busVars, poolVars, onceVars, calls, smVars, services, cur_id,
                   hist, kernelVars>>

\* A thread enters ServiceRegistry.call(TestDomain, TestService, blocking=...)
\* while other threads are inside it.
CallEnterConcurrently(blocking) ==
    /\ Len(callers) < MaxThreads
    /\ callers' = Append(callers, NewCaller(blocking))
    /\ UNCHANGED <<busVars, poolVars, onceVars, calls, smVars, services, cur_id,
                   hist, kernelVars>>

\* _generate_unique_id, `self._cur_id += 1`: the load and the addition
GenLoad(c) ==
    /\ callers[c].pc = "load"
    /\ callers' = [callers EXCEPT ![c].tmp = cur_id + 1, ![c].pc = "store"]
    /\ UNCHANGED <<busVars, poolVars, onceVars, calls, smVars, services, cur_id,
                   hist, kernelVars>>

\* _generate_unique_id, `self._cur_id += 1`: the store
GenStore(c) ==
    /\ callers[c].pc = "store"
    /\ cur_id' = callers[c].tmp
    /\ callers' = [callers EXCEPT ![c].pc = "format"]
    /\ UNCHANGED <<busVars, poolVars, onceVars, calls, smVars, services, hist, kernelVars>>

\* "{}-{}".format(id(self), self._cur_id): the registry's id, then the
\* counter.
RegistryId == "registry"
FormatId(counter) == <<RegistryId, counter>>

\* _generate_unique_id, the return: self._cur_id is read again
GenFormat(c) ==
    /\ callers[c].pc = "format"
    /\ callers' = [callers EXCEPT
                      ![c].call_id = FormatId(cur_id),
                      ![c].pc = IF callers[c].blocking THEN "listen" ELSE "fire"]
    /\ UNCHANGED <<busVars, poolVars, onceVars, calls, smVars, services, cur_id,
                   hist, kernelVars>>

\* call: `self._bus.listen(EVENT_SERVICE_EXECUTED, service_executed)`
CallListen(c) ==
    /\ callers[c].pc = "listen"
    /\ listeners' = ListenTable(listeners, EVENT_SERVICE_EXECUTED,
                                ServiceExecutedListener(c))
    /\ callers' = [callers EXCEPT ![c].pc = "fire"]
    /\ UNCHANGED <<fired, snapshot, poolVars, onceVars, calls, smVars, services,
                   cur_id, hist, kernelVars>>

\* call: `self._bus.fire(EVENT_CALL_SERVICE, event_data)`; a call that does
\* not block returns.
CallFire(c) ==
    /\ callers[c].pc = "fire"
    /\ BusFire(EVENT_CALL_SERVICE,
               ("domain" :> TestDomain) @@ ("service" :> TestService)
               @@ ("service_call_id" :> callers[c].call_id))
    /\ callers' = [callers EXCEPT
                      ![c].pc = IF callers[c].blocking THEN "wait" ELSE "done"]
    /\ UNCHANGED <<listeners, wjob, wpc, onceVars, calls, smVars, services,
                   cur_id, hist, kernelVars>>

\* call: executed_event.wait returns True, the event is set
CallSignalled(c) ==
    /\ callers[c].pc = "wait"
    /\ callers[c].gate
    /\ callers' = [callers EXCEPT ![c].pc = "done", ![c].ret = "true"]
    /\ UNCHANGED <<busVars, poolVars, onceVars, calls, smVars, services, cur_id,
                   hist, kernelVars>>

\* call: executed_event.wait returns False, SERVICE_CALL_LIMIT has passed
CallTimeout(c) ==
    /\ callers[c].pc = "wait"
    /\ ~callers[c].gate
    /\ callers' = [callers EXCEPT ![c].pc = "cleanup"]
    /\ UNCHANGED <<busVars, poolVars, onceVars, calls, smVars, services, cur_id,
                   hist, kernelVars>>

\* A call that reports success after its wait timed out.
TimeoutReturnTrue == "true"

\* call, after the wait timed out: `return False`
TimeoutReturn == "false"

\* A cleanup that leaves the listener registered.
CleanupTableKeep(ls, listener) == ls

\* call, after the wait timed out: remove_listener
CleanupTable(ls, listener) == RemoveTable(ls, EVENT_SERVICE_EXECUTED, listener)

\* call, after the wait timed out: remove the listener and return False
CallCleanup(c) ==
    /\ callers[c].pc = "cleanup"
    /\ listeners' = CleanupTable(listeners, ServiceExecutedListener(c))
    /\ callers' = [callers EXCEPT ![c].pc = "done", ![c].ret = TimeoutReturn]
    /\ UNCHANGED <<fired, snapshot, poolVars, onceVars, calls, smVars, services,
                   cur_id, hist, kernelVars>>

\* _event_to_service_call, under the registry lock: a job for
\* _execute_service if the service is registered, nothing otherwise.
EventToServiceCall(w) ==
    LET ev == wjob[w].ev
        domain == fired[ev].data["domain"]
        service == fired[ev].data["service"]
    IN  /\ wpc[w] = "start"
        /\ wjob[w].func.kind = "e2s"
        /\ IF HasService(domain, service)
           THEN /\ queue' = add_job(queue,
                        [prio |-> EVENT_SERVICE,
                         func |-> [kind |-> "exec", id |-> services[domain][service]],
                         ev |-> ev])
                /\ hist' = hist @@ (ev :> [handler |-> services[domain][service],
                                           runs |-> 0, returned |-> 0,
                                           executed |-> <<>>])
           ELSE /\ hist' = hist @@ (ev :> [handler |-> 0, runs |-> 0,
                                           returned |-> 0, executed |-> <<>>])
                /\ UNCHANGED queue
        /\ JobDone(w)
        /\ UNCHANGED <<busVars, taken, onceVars, calls, smVars, services, cur_id,
                       callers, kernelVars>>

\* A handler whose exception is swallowed.
ServiceOutcomeSwallowed(handler) == "returned"

\* _execute_service, `service(call)`: the handler returns or raises.
ServiceOutcome(handler) == IF HandlerRaises(handler) THEN "raised" ELSE "returned"

\* _execute_service, `service(call)`. An exception leaves _execute_service
\* and is caught by job_handler.
ExecuteService(w) ==
    LET ev == wjob[w].ev
        handler == wjob[w].func.id
    IN  /\ wpc[w] = "start"
        /\ wjob[w].func.kind = "exec"
        /\ handler \in Handlers
        /\ IF ServiceOutcome(handler) = "returned"
           THEN /\ hist' = [hist EXCEPT ![ev].runs = @ + 1, ![ev].returned = @ + 1]
                /\ wpc' = [wpc EXCEPT ![w] = "executed"]
                /\ UNCHANGED wjob
           ELSE /\ hist' = [hist EXCEPT ![ev].runs = @ + 1]
                /\ JobRaised(w)
        /\ UNCHANGED <<busVars, queue, taken, onceVars, calls, smVars, services,
                       cur_id, callers, kernelVars>>

----------------------------------------------------------------------------
(* HomeAssistant.block_till_stopped, run by the thread `main`, and the     *)
(* service homeassistant.stop it registers.                                *)

HomeAssistantDomain == "homeassistant"
SERVICE_HOMEASSISTANT_STOP == "stop"

\* The handler `lambda service: request_shutdown.set()`.
ShutdownHandler == 3

\* A handler that leaves the gate alone.
ShutdownSetsNothing == request_shutdown

\* `request_shutdown.set()`
ShutdownSets == TRUE

\* block_till_stopped: services.register(DOMAIN, SERVICE_HOMEASSISTANT_STOP,
\* ...), which stores the handler and fires service_registered
BlockRegister ==
    /\ main = "idle"
    /\ services' = services @@
           (HomeAssistantDomain :> (SERVICE_HOMEASSISTANT_STOP :> ShutdownHandler))
    /\ BusFire(EVENT_SERVICE_REGISTERED,
               ("domain" :> HomeAssistantDomain)
               @@ ("service" :> SERVICE_HOMEASSISTANT_STOP))
    /\ main' = "loop"
    /\ UNCHANGED <<listeners, wjob, wpc, onceVars, calls, smVars, cur_id,
                   callers, hist, request_shutdown, pool_running, stopLog, timerVars, lockVars>>

\* block_till_stopped: `while not request_shutdown.isSet()` ends the loop
BlockLoopExit ==
    /\ main = "loop"
    /\ request_shutdown
    /\ main' = "stop"
    /\ UNCHANGED <<busVars, poolVars, onceVars, calls, smVars, svcVars,
                   request_shutdown, pool_running, stopLog, timerVars, lockVars>>

\* block_till_stopped: `except KeyboardInterrupt: break`
BlockInterrupt ==
    /\ main = "loop"
    /\ main' = "stop"
    /\ UNCHANGED <<busVars, poolVars, onceVars, calls, smVars, svcVars,
                   request_shutdown, pool_running, stopLog, timerVars, lockVars>>

\* A thread calls services.call(DOMAIN, SERVICE_HOMEASSISTANT_STOP) and does
\* not block: the id is generated and call_service is fired.
CallStopService ==
    /\ calls < MaxServiceCalls
    /\ calls' = calls + 1
    /\ cur_id' = cur_id + 1
    /\ BusFire(EVENT_CALL_SERVICE,
               ("domain" :> HomeAssistantDomain)
               @@ ("service" :> SERVICE_HOMEASSISTANT_STOP)
               @@ ("service_call_id" :> FormatId(cur_id + 1)))
    /\ UNCHANGED <<listeners, wjob, wpc, onceVars, smVars, services, callers,
                   hist, kernelVars>>

\* _execute_service, `service(call)` for the handler of homeassistant.stop
ExecuteShutdown(w) ==
    LET ev == wjob[w].ev
    IN  /\ wpc[w] = "start"
        /\ wjob[w].func.kind = "exec"
        /\ wjob[w].func.id = ShutdownHandler
        /\ request_shutdown' = ShutdownSets
        /\ hist' = [hist EXCEPT ![ev].runs = @ + 1, ![ev].returned = @ + 1]
        /\ wpc' = [wpc EXCEPT ![w] = "executed"]
        /\ UNCHANGED <<busVars, queue, wjob, taken, onceVars, calls, smVars,
                       services, cur_id, callers, main, pool_running, stopLog, timerVars, lockVars>>

\* _execute_service, the fire of service_executed with the call's id
ExecuteServiceFire(w) ==
    LET ev == wjob[w].ev
    IN  /\ wpc[w] = "executed"
        /\ BusFire(EVENT_SERVICE_EXECUTED,
                   "service_call_id" :> fired[ev].data["service_call_id"])
        /\ hist' = [hist EXCEPT ![ev].executed = Append(@, Len(fired) + 1)]
        /\ JobDone(w)
        /\ UNCHANGED <<listeners, onceVars, calls, smVars, services, cur_id,
                       callers, kernelVars>>

\* service_executed, the closure of call: the id is compared, the event set
ServiceExecuted(w) ==
    LET c == wjob[w].func.id
    IN  /\ wpc[w] = "start"
        /\ wjob[w].func.kind = "executed"
        /\ IF fired[wjob[w].ev].data["service_call_id"] = callers[c].call_id
           THEN /\ callers' = [callers EXCEPT ![c].gate = TRUE,
                                              ![c].observed = TRUE]
                /\ wpc' = [wpc EXCEPT ![w] = "unlisten"]
                /\ UNCHANGED wjob
           ELSE /\ JobDone(w)
                /\ UNCHANGED callers
        /\ UNCHANGED <<busVars, queue, taken, onceVars, calls, smVars, services,
                       cur_id, hist, kernelVars>>

\* service_executed, the closure of call: it removes itself
ServiceExecutedRemove(w) ==
    /\ wpc[w] = "unlisten"
    /\ listeners' = RemoveTable(listeners, EVENT_SERVICE_EXECUTED, wjob[w].func)
    /\ JobDone(w)
    /\ UNCHANGED <<fired, snapshot, queue, taken, onceVars, calls, smVars,
                   svcVars, kernelVars>>

----------------------------------------------------------------------------
(* The three mutexes. Here a call is a sequence of steps of its thread:    *)
(* taking a lock is a step that waits until the lock is free, and fire     *)
(* adds its jobs one by one while it holds the bus lock. The threads are   *)
(* the callers and the workers of the pool.                                *)

MaxLockCalls == 2       \* calls made by the caller threads

NoThread == 0
CallerThreads == {1, 2}
WorkerThread(w) == 10 + w
Threads == CallerThreads \cup {WorkerThread(w) : w \in Workers}

IdleThread == [pc |-> "idle", outer |-> "none", event_type |-> "",
               data |-> NoData, pending |-> <<>>]

InitLocks ==
    /\ locks = [bus |-> NoThread, sm |-> NoThread, svc |-> NoThread]
    /\ thr = [t \in Threads |-> IdleThread]
    /\ enq = <<>>
    /\ mutLog = <<>>

\* A lock that anyone can take at any time.
CanAcquireAlways(lock, t) == TRUE

\* threading.Lock.acquire returns: nobody holds the lock.
CanAcquire(lock, t) == locks[lock] = NoThread

\* A release that leaves the lock with its holder.
AfterReleaseKept(t) == t

\* threading.Lock.release, at the end of a `with` block
AfterRelease(t) == NoThread

\* A set that gives up its lock before it fires.
HolderInFireNobody(t) == NoThread

\* StateMachine.set: `self._bus.fire(...)` is inside `with self._lock`
HolderInFire(t) == t

\* The call of thread t returns; a worker's job is done with it.
Finish(t) ==
    /\ thr' = [thr EXCEPT ![t] = IdleThread]
    /\ IF \E w \in Workers : t = WorkerThread(w)
       THEN JobDone(CHOOSE w \in Workers : t = WorkerThread(w))
       ELSE UNCHANGED <<wjob, wpc>>

\* Thread t enters EventBus.fire, holding the lock `outer` or none.
EnterFire(t, outer, event_type, data) ==
    thr' = [thr EXCEPT ![t] = [pc |-> "fire", outer |-> outer,
                               event_type |-> event_type, data |-> data,
                               pending |-> <<>>]]

\* fire: `with self._lock`, the copy of the listeners and the Event
FireAcquire(t) ==
    /\ thr[t].pc = "fire"
    /\ CanAcquire("bus", t)
    /\ locks' = [locks EXCEPT !.bus = t]
    /\ fired' = Append(fired, [event_type |-> thr[t].event_type,
                               data |-> thr[t].data])
    /\ snapshot' = Append(snapshot, listeners)
    /\ taken' = Append(taken, 0)
    /\ thr' = [thr EXCEPT ![t].pc = "add",
                          ![t].pending = FireJobs(listeners, thr[t].event_type,
                                                  Len(fired) + 1)]
    /\ UNCHANGED <<listeners, queue, wjob, wpc, onceVars, calls, smVars,
                   svcVars, mainVars, timerVars, enq, mutLog>>

\* fire: one turn of `for func in listeners: self._pool.add_job(...)`
FireAddJob(t) ==
    /\ thr[t].pc = "add"
    /\ thr[t].pending # <<>>
    /\ queue' = add_job(queue, Head(thr[t].pending))
    /\ enq' = Append(enq, Head(thr[t].pending).ev)
    /\ thr' = [thr EXCEPT ![t].pending = Tail(@)]
    /\ UNCHANGED <<busVars, wjob, wpc, taken, onceVars, calls, smVars, svcVars,
                   mainVars, timerVars, locks, mutLog>>

\* fire: the end of `with self._lock`; a fire called with no other lock
\* held returns to its caller.
FireRelease(t) ==
    /\ thr[t].pc = "add"
    /\ thr[t].pending = <<>>
    /\ locks' = [locks EXCEPT !.bus = AfterRelease(t)]
    /\ IF thr[t].outer = "none"
       THEN Finish(t)
       ELSE /\ thr' = [thr EXCEPT ![t].pc = "unlock"]
            /\ UNCHANGED <<wjob, wpc>>
    /\ UNCHANGED <<busVars, queue, taken, onceVars, calls, smVars, svcVars,
                   mainVars, timerVars, enq, mutLog>>

\* set and register: the end of their `with self._lock`
Unlock(t) ==
    /\ thr[t].pc = "unlock"
    /\ locks' = [locks EXCEPT ![thr[t].outer] =
                     IF @ = t THEN AfterRelease(t) ELSE @]
    /\ Finish(t)
    /\ UNCHANGED <<busVars, queue, taken, onceVars, calls, smVars, svcVars,
                   mainVars, timerVars, enq, mutLog>>

LockEventTypes == {"x"}
LockEntityIds == {<<"a", ".", "b">>}
LockStates == {[type |-> "str", value |-> "on"], [type |-> "str", value |-> "off"]}

\* A caller calls bus.fire(event_type).
LockFire(t, event_type) ==
    /\ thr[t].pc = "idle"
    /\ calls < MaxLockCalls
    /\ calls' = calls + 1
    /\ EnterFire(t, "none", event_type, NoData)
    /\ UNCHANGED <<busVars, poolVars, onceVars, smVars, svcVars, mainVars,
                   timerVars, locks, enq, mutLog>>

\* A caller calls bus.listen(event_type, listener): all of it under the bus
\* lock.
LockListen(t, event_type) ==
    /\ thr[t].pc = "idle"
    /\ calls < MaxLockCalls
    /\ calls' = calls + 1
    /\ CanAcquire("bus", t)
    /\ listeners' = ListenTable(listeners, event_type, PlainListener)
    /\ UNCHANGED <<fired, snapshot, poolVars, onceVars, smVars, svcVars,
                   kernelVars>>

\* A caller calls bus.remove_listener(event_type, listener): all of it under
\* the bus lock.
LockRemoveListener(t, event_type) ==
    /\ thr[t].pc = "idle"
    /\ calls < MaxLockCalls
    /\ calls' = calls + 1
    /\ CanAcquire("bus", t)
    /\ listeners' = RemoveTable(listeners, event_type, PlainListener)
    /\ UNCHANGED <<fired, snapshot, poolVars, onceVars, smVars, svcVars,
                   kernelVars>>

\* A caller calls states.set: `with self._lock`, the comparison and the
\* store; the fire follows with the lock held.
LockSet(t, entity_id_in, new_state_in) ==
    LET entity_id == Lower(entity_id_in)
        new_state == Str(new_state_in)
        attributes == NoData
        old_state == StatesGet(entity_id)
        is_existing == old_state # None
        same_state == is_existing /\ heap[old_state].state = new_state
        same_attr == is_existing /\ heap[old_state].attributes = attributes
        state == NewRef(heap)
    IN  /\ thr[t].pc = "idle"
        /\ calls < MaxLockCalls
        /\ calls' = calls + 1
        /\ CanAcquire("sm", t)
        /\ IF ~ShouldStore(same_state, same_attr) \/ ~EntityIdMatches(entity_id)
           THEN UNCHANGED <<states, heap, locks, thr, mutLog>>
           ELSE /\ heap' = heap @@ (state :>
                       StateInit(entity_id, new_state, attributes,
                                 SetLastChanged(same_state, old_state), clock))
                /\ states' = [k \in DOMAIN states \cup {entity_id} |->
                                 IF k = entity_id THEN state ELSE states[k]]
                /\ mutLog' = Append(mutLog, [op |-> "set", entity_id |-> entity_id,
                                             state |-> state,
                                             nfired |-> Len(fired)])
                /\ locks' = [locks EXCEPT !.sm = HolderInFire(t)]
                /\ EnterFire(t, "sm", EVENT_STATE_CHANGED,
                             StateChangedData(entity_id, state, old_state))
        /\ UNCHANGED <<busVars, poolVars, onceVars, clock, result, lastOp,
                       svcVars, mainVars, timerVars, enq>>

\* A caller calls states.remove: all of it under the lock.
LockRemove(t, entity_id_in) ==
    LET entity_id == Lower(entity_id_in)
    IN  /\ thr[t].pc = "idle"
        /\ calls < MaxLockCalls
        /\ calls' = calls + 1
        /\ CanAcquire("sm", t)
        /\ states' = [k \in DOMAIN states \ {entity_id} |-> states[k]]
        /\ mutLog' = Append(mutLog, [op |-> "remove", entity_id |-> entity_id,
                                     state |-> None, nfired |-> Len(fired)])
        /\ UNCHANGED <<busVars, poolVars, onceVars, heap, clock, result,
                       lastOp, svcVars, mainVars, timerVars, locks, thr, enq>>

\* A caller calls services.register: `with self._lock` and the store; the
\* fire follows with the lock held.
LockRegister(t, service_func) ==
    /\ thr[t].pc = "idle"
    /\ calls < MaxLockCalls
    /\ calls' = calls + 1
    /\ CanAcquire("svc", t)
    /\ services' =
           IF TestDomain \in DOMAIN services
           THEN [services EXCEPT ![TestDomain] =
                    [sv \in DOMAIN @ \cup {TestService} |->
                        IF sv = TestService THEN service_func ELSE @[sv]]]
           ELSE services @@ (TestDomain :> (TestService :> service_func))
    /\ locks' = [locks EXCEPT !.svc = t]
    /\ EnterFire(t, "svc", EVENT_SERVICE_REGISTERED,
                 ("domain" :> TestDomain) @@ ("service" :> TestService))
    /\ UNCHANGED <<busVars, poolVars, onceVars, smVars, cur_id, callers, hist,
                   mainVars, timerVars, enq, mutLog>>

\* A caller calls services.call and does not block: the id, then the fire.
LockCall(t) ==
    /\ thr[t].pc = "idle"
    /\ calls < MaxLockCalls
    /\ calls' = calls + 1
    /\ cur_id' = cur_id + 1
    /\ EnterFire(t, "none", EVENT_CALL_SERVICE,
                 ("domain" :> TestDomain) @@ ("service" :> TestService)
                 @@ ("service_call_id" :> FormatId(cur_id + 1)))
    /\ UNCHANGED <<busVars, poolVars, onceVars, smVars, services, callers,
                   hist, mainVars, timerVars, locks, enq, mutLog>>

\* _event_to_service_call, run by a worker: `with self._lock`
LockEventToServiceCall(w) ==
    /\ CanAcquire("svc", WorkerThread(w))
    /\ EventToServiceCall(w)

\* _execute_service, run by a worker: the handler returned and the worker
\* enters the fire of service_executed.
LockExecuteServiceFire(w) ==
    /\ wpc[w] = "executed"
    /\ thr[WorkerThread(w)].pc = "idle"
    /\ wpc' = [wpc EXCEPT ![w] = "firing"]
    /\ EnterFire(WorkerThread(w), "none", EVENT_SERVICE_EXECUTED,
                 "service_call_id" :> fired[wjob[w].ev].data["service_call_id"])
    /\ UNCHANGED <<busVars, queue, wjob, taken, onceVars, calls, smVars,
                   svcVars, mainVars, timerVars, locks, enq, mutLog>>

----------------------------------------------------------------------------
(* The bus and the pool under threads that fire, listen and remove *)

\* HomeAssistant.__init__ and its pool, before any call: no listener but
\* those in `table`, nothing pending, the workers idle, no entity.
InitWith(table) ==
    /\ listeners = table
    /\ queue = <<>>
    /\ wjob = [w \in Workers |-> NoJob]
    /\ wpc = [w \in Workers |-> "idle"]
    /\ fired = <<>>
    /\ snapshot = <<>>
    /\ taken = <<>>
    /\ onceType = <<>>
    /\ onceRun = <<>>
    /\ onceCalls = <<>>
    /\ actionCalls = {}
    /\ calls = 0
    /\ states = [k \in {} |-> 0]
    /\ heap = [r \in {} |-> 0]
    /\ clock = 0
    /\ result = {}
    /\ lastOp = NoOp
    /\ services = [d \in {} |-> 0]
    /\ cur_id = 0
    /\ callers = <<>>
    /\ hist = [k \in {} |-> 0]
    /\ main = "idle"
    /\ request_shutdown = FALSE
    /\ pool_running = TRUE
    /\ stopLog = <<>>
    /\ timer = NoTimer
    /\ time = 0
    /\ stop_event = FALSE
    /\ InitLocks

Init == InitWith([k \in {} |-> <<>>])

Next ==
    \/ \E t \in BusEventTypes : Fire(t)
    \/ \E t \in BusListenTypes : Listen(t)
    \/ \E t \in BusListenTypes : ListenOnce(t)
    \/ \E t \in BusListenTypes : RemoveListener(t)
    \/ \E w \in Workers : TakeJob(w)
    \/ \E w \in Workers : RunPlain(w)
    \/ \E w \in Workers : OnceCheck(w)
    \/ \E w \in Workers : OnceSetRun(w)
    \/ \E w \in Workers : OnceRemove(w)
    \/ \E w \in Workers : OnceInvoke(w)

Spec == Init /\ [][Next]_vars

----------------------------------------------------------------------------
(* The bus under fires of event types of different priorities, with both   *)
(* workers and with one worker only taking jobs.                           *)

PriorityEventTypes == {EVENT_TIME_CHANGED, EVENT_STATE_CHANGED, "x"}
PriorityListenTypes == {MATCH_ALL, EVENT_TIME_CHANGED}

NextPriority ==
    \/ \E t \in PriorityEventTypes : Fire(t)
    \/ \E t \in PriorityListenTypes : Listen(t)
    \/ \E w \in Workers : TakeJob(w)
    \/ \E w \in Workers : RunPlain(w)

\* A bus on which one listener for every event is registered already.
InitPriority == InitWith(MATCH_ALL :> <<PlainListener>>)

SpecPriority == InitPriority /\ [][NextPriority]_vars

NextOneWorker ==
    \/ \E t \in PriorityEventTypes : Fire(t)
    \/ \E t \in PriorityListenTypes : Listen(t)
    \/ \E t \in PriorityListenTypes : ListenOnce(t)
    \/ TakeJob(1)
    \/ RunPlain(1)
    \/ OnceCheck(1)
    \/ OnceSetRun(1)
    \/ OnceRemove(1)
    \/ OnceInvoke(1)

SpecOneWorker == Init /\ [][NextOneWorker]_vars

----------------------------------------------------------------------------
(* Threads that track points in time and fire time_changed, and the pool's *)
(* workers running the point_in_time_listener jobs.                        *)

NextPointInTime ==
    \/ \E t \in PointInputs : TrackPointInTime(t)
    \/ \E n \in NowInputs : FireTimeChanged(n)
    \/ \E w \in Workers : TakeJob(w)
    \/ \E w \in Workers : PointCheck(w)
    \/ \E w \in Workers : PointSetRun(w)
    \/ \E w \in Workers : PointRemove(w)
    \/ \E w \in Workers : PointInvoke(w)

SpecPointInTime == Init /\ [][NextPointInTime]_vars

----------------------------------------------------------------------------
(* Threads that track state changes and set states, and the pool's workers *)
(* running the state_listener jobs.                                        *)

NextTrack ==
    \/ \E e \in TrackedInputs, f \in FromInputs, t \in ToInputs :
           TrackChange(e, f, t)
    \/ \E e \in TrackEntityIds, s \in TrackStates : Set(e, s, AttrNone)
    \/ \E w \in Workers : TakeJob(w)
    \/ \E w \in Workers : RunStateListener(w)

SpecTrack == Init /\ [][NextTrack]_vars

----------------------------------------------------------------------------
(* A thread calls stop while others listen and fire and the workers run.   *)

NextStop ==
    \/ \E t \in StopEventTypes : Fire(t)
    \/ \E t \in StopListenTypes : Listen(t)
    \/ \E w \in Workers : TakeJob(w)
    \/ \E w \in Workers : RunPlain(w)
    \/ StopFire
    \/ StopBlockTillDone
    \/ StopPool

SpecStop == Init /\ [][NextStop]_vars

----------------------------------------------------------------------------
(* A thread inside block_till_stopped while others call homeassistant.stop. *)
(* The main thread and the workers are scheduled again and again.          *)

NextBlock ==
    \/ BlockRegister
    \/ BlockLoopExit
    \/ BlockInterrupt
    \/ StopFire
    \/ StopBlockTillDone
    \/ StopPool
    \/ CallStopService
    \/ \E w \in Workers : TakeJob(w)
    \/ \E w \in Workers : EventToServiceCall(w)
    \/ \E w \in Workers : ExecuteShutdown(w)
    \/ \E w \in Workers : ExecuteServiceFire(w)

MainStep == BlockLoopExit \/ StopFire \/ StopBlockTillDone \/ StopPool

BlockWorkerStep(w) ==
    \/ TakeJob(w)
    \/ EventToServiceCall(w)
    \/ ExecuteShutdown(w)
    \/ ExecuteServiceFire(w)

InitBlock == InitWith(EVENT_CALL_SERVICE :> <<EventToServiceCallListener>>)

SpecBlock == InitBlock /\ [][NextBlock]_vars

FairSpecBlock ==
    SpecBlock /\ WF_vars(MainStep) /\ \A w \in Workers : WF_vars(BlockWorkerStep(w))

----------------------------------------------------------------------------
(* The Timer thread in its loop, started at any time of the minute with    *)
(* any of the intervals.                                                   *)

InitTimer ==
    /\ listeners = [k \in {} |-> <<>>]
    /\ queue = <<>>
    /\ wjob = [w \in Workers |-> NoJob]
    /\ wpc = [w \in Workers |-> "idle"]
    /\ fired = <<>>
    /\ snapshot = <<>>
    /\ taken = <<>>
    /\ onceType = <<>>
    /\ onceRun = <<>>
    /\ onceCalls = <<>>
    /\ actionCalls = {}
    /\ calls = 0
    /\ states = [k \in {} |-> 0]
    /\ heap = [r \in {} |-> 0]
    /\ clock = 0
    /\ result = {}
    /\ lastOp = NoOp
    /\ services = [d \in {} |-> 0]
    /\ cur_id = 0
    /\ callers = <<>>
    /\ hist = [k \in {} |-> 0]
    /\ main = "idle"
    /\ request_shutdown = FALSE
    /\ pool_running = TRUE
    /\ stopLog = <<>>
    /\ stop_event = FALSE
    /\ InitLocks
    /\ time \in 0..(SecondsPerMinute * TimerTicksPerSecond - 1)
    /\ \E i \in TimerIntervals : timer = [NoTimer EXCEPT !.pc = "loop", !.interval = i]

NextTimer ==
    \/ TimerRead
    \/ TimerSleep
    \/ TimerFire

SpecTimer == InitTimer /\ [][NextTimer]_vars

----------------------------------------------------------------------------
(* A thread calls start and later stop; the workers and the Timer thread   *)
(* are scheduled again and again.                                          *)

NextLife ==
    \/ HassStartTimer
    \/ HassStartFire
    \/ StopFire
    \/ StopBlockTillDone
    \/ StopPool
    \/ \E w \in Workers : TakeJob(w)
    \/ \E w \in Workers : RunTimerStart(w)
    \/ \E w \in Workers : RunTimerStop(w)
    \/ TimerRegister
    \/ TimerRead
    \/ TimerSleep
    \/ TimerFire
    \/ TimerExit

LifeWorkerStep(w) == TakeJob(w) \/ RunTimerStart(w) \/ RunTimerStop(w)

TimerStep == TimerRegister \/ TimerRead \/ TimerSleep \/ TimerFire \/ TimerExit

StopStep == StopBlockTillDone \/ StopPool

SpecLife == Init /\ [][NextLife]_vars

FairSpecLife ==
    /\ SpecLife
    /\ WF_vars(StopStep)
    /\ WF_vars(TimerStep)
    /\ \A w \in Workers : WF_vars(LifeWorkerStep(w))

----------------------------------------------------------------------------
(* Callers and workers taking the three locks. A listener listens for     *)
(* every event and another for "x". Every thread inside a call and every   *)
(* worker is scheduled again and again.                                    *)

InitLockSpec ==
    InitWith((MATCH_ALL :> <<PlainListener>>)
             @@ ("x" :> <<PlainListener>>)
             @@ (EVENT_CALL_SERVICE :> <<EventToServiceCallListener>>))

ThreadStep(t) ==
    \/ FireAcquire(t)
    \/ FireAddJob(t)
    \/ FireRelease(t)
    \/ Unlock(t)

LockWorkerStep(w) ==
    \/ TakeJob(w)
    \/ RunPlain(w)
    \/ LockEventToServiceCall(w)
    \/ ExecuteService(w)
    \/ LockExecuteServiceFire(w)

NextLocks ==
    \/ \E t \in CallerThreads, e \in LockEventTypes : LockFire(t, e)
    \/ \E t \in CallerThreads, e \in LockEventTypes : LockListen(t, e)
    \/ \E t \in CallerThreads, e \in LockEventTypes : LockRemoveListener(t, e)
    \/ \E t \in CallerThreads, e \in LockEntityIds, s \in LockStates :
           LockSet(t, e, s)
    \/ \E t \in CallerThreads, e \in LockEntityIds : LockRemove(t, e)
    \/ \E t \in CallerThreads : LockRegister(t, 1)
    \/ \E t \in CallerThreads : LockCall(t)
    \/ \E t \in Threads : FireAcquire(t)
    \/ \E t \in Threads : FireAddJob(t)
    \/ \E t \in Threads : FireRelease(t)
    \/ \E t \in Threads : Unlock(t)
    \/ \E w \in Workers : TakeJob(w)
    \/ \E w \in Workers : RunPlain(w)
    \/ \E w \in Workers : LockEventToServiceCall(w)
    \/ \E w \in Workers : ExecuteService(w)
    \/ \E w \in Workers : LockExecuteServiceFire(w)

SpecLocks == InitLockSpec /\ [][NextLocks]_vars

FairSpecLocks ==
    /\ SpecLocks
    /\ \A t \in Threads : WF_vars(ThreadStep(t))
    /\ \A w \in Workers : WF_vars(LockWorkerStep(w))

----------------------------------------------------------------------------
(* The bus with listeners that raise. A worker that is not waiting for a   *)
(* job is scheduled again and again.                                       *)

NextRaising ==
    \/ \E t \in BusEventTypes : Fire(t)
    \/ \E t \in BusListenTypes : Listen(t)
    \/ \E t \in BusListenTypes : ListenFailing(t)
    \/ \E w \in Workers : TakeJob(w)
    \/ \E w \in Workers : RunPlain(w)
    \/ \E w \in Workers : RunFailing(w)

WorkerStep(w) == TakeJob(w) \/ RunPlain(w) \/ RunFailing(w)

SpecRaising == Init /\ [][NextRaising]_vars

FairSpecRaising == SpecRaising /\ \A w \in Workers : WF_vars(WorkerStep(w))

----------------------------------------------------------------------------
(* The StateMachine under threads that set, remove and read while time     *)
(* passes; nothing listens for state_changed.                              *)

NextStates ==
    \/ \E e \in EntityIdInputs, s \in StateInputs, a \in AttrInputs : Set(e, s, a)
    \/ \E e \in EntityIdInputs : Remove(e)
    \/ \E e \in EntityIdInputs : StateGet(e)
    \/ StateAll
    \/ \E t \in 0..MaxClock : StateGetSince(t)
    \/ \E r \in result, s \in StateInputs : MutateReturned(r, Str(s))
    \/ Tick

SpecStates == Init /\ [][NextStates]_vars

----------------------------------------------------------------------------
(* The StateMachine addressed by ids of every spelling: upper and lower    *)
(* case, without a dot, ending in a newline.                               *)

NextEntityIds ==
    \/ \E e \in EntityIdInputsNewline, s \in StateInputs, a \in AttrInputs :
           Set(e, s, a)
    \/ \E e \in EntityIdInputsNewline : Remove(e)
    \/ \E e \in EntityIdInputsNewline : StateGet(e)
    \/ \E e \in EntityIdInputsNewline, s \in StateInputs : StateIsState(e, Str(s))

SpecEntityIds == Init /\ [][NextEntityIds]_vars

----------------------------------------------------------------------------
(* The ServiceRegistry of a new HomeAssistant under threads that register  *)
(* the service and call it.                                                *)

InitServices == InitWith(EVENT_CALL_SERVICE :> <<EventToServiceCallListener>>)

NextServices ==
    \/ \E h \in Handlers : Register(TestDomain, TestService, h)
    \/ \E b \in BOOLEAN : CallEnter(b)
    \/ \E c \in 1..Len(callers) : GenLoad(c)
    \/ \E c \in 1..Len(callers) : GenStore(c)
    \/ \E c \in 1..Len(callers) : GenFormat(c)
    \/ \E c \in 1..Len(callers) : CallListen(c)
    \/ \E c \in 1..Len(callers) : CallFire(c)
    \/ \E c \in 1..Len(callers) : CallSignalled(c)
    \/ \E c \in 1..Len(callers) : CallTimeout(c)
    \/ \E c \in 1..Len(callers) : CallCleanup(c)
    \/ \E w \in Workers : TakeJob(w)
    \/ \E w \in Workers : EventToServiceCall(w)
    \/ \E w \in Workers : ExecuteService(w)
    \/ \E w \in Workers : ExecuteServiceFire(w)
    \/ \E w \in Workers : ServiceExecuted(w)
    \/ \E w \in Workers : ServiceExecutedRemove(w)

SpecServices == InitServices /\ [][NextServices]_vars

\* A thread inside call is scheduled again and again, and its wait on the
\* event ends after SERVICE_CALL_LIMIT at the latest.
CallerStep(c) ==
    /\ c <= Len(callers)
    /\ \/ GenLoad(c)
       \/ GenStore(c)
       \/ GenFormat(c)
       \/ CallListen(c)
       \/ CallFire(c)
       \/ CallSignalled(c)
       \/ CallTimeout(c)
       \/ CallCleanup(c)

FairSpecServices ==
    SpecServices /\ \A c \in 1..MaxServiceCalls : WF_vars(CallerStep(c))

----------------------------------------------------------------------------
(* ServiceRegistry.call entered by several threads at once; nobody has     *)
(* registered the service.                                                 *)

NextCallers ==
    \/ \E b \in BOOLEAN : CallEnterConcurrently(b)
    \/ \E c \in 1..Len(callers) : GenLoad(c)
    \/ \E c \in 1..Len(callers) : GenStore(c)
    \/ \E c \in 1..Len(callers) : GenFormat(c)
    \/ \E c \in 1..Len(callers) : CallListen(c)
    \/ \E c \in 1..Len(callers) : CallFire(c)
    \/ \E c \in 1..Len(callers) : CallTimeout(c)
    \/ \E c \in 1..Len(callers) : CallCleanup(c)
    \/ \E w \in Workers : TakeJob(w)
    \/ \E w \in Workers : EventToServiceCall(w)

SpecCallers == InitServices /\ [][NextCallers]_vars

----------------------------------------------------------------------------
(* Claims about the bus and the pool *)

\* The pool has drained: nothing pending and no worker inside a job.
PoolDrained == queue = <<>> /\ \A w \in Workers : wpc[w] = "idle"

\* The listeners fire k found registered for its event: the history's table,
\* MATCH_ALL bucket first.
SnapshotOf(k) ==
    Get(snapshot[k], MATCH_ALL) \o Get(snapshot[k], fired[k].event_type)

PendingOf(k) == SelectSeq(queue, LAMBDA j : j.ev = k /\ j.func.kind # "exec")

\* C1: a listener registered with listen_once invokes its target at most
\* once, whatever is fired and however the workers interleave, and exactly
\* once when a matching event was fired and the pool has drained.
C1_OnceAtMostOnce ==
    \A n \in 1..Len(onceCalls) :
        /\ onceCalls[n] <= 1
        /\ (/\ PoolDrained
            /\ \E k \in 1..Len(fired) : Contains(SnapshotOf(k), OnceListener(n)))
           => onceCalls[n] = 1

\* C3: every fire enqueues exactly one job per entry of listeners[MATCH_ALL]
\* followed by listeners[event_type] as they stood when it took its copy:
\* the jobs of fire k that were taken plus those still pending are that
\* sequence, whatever is added to or removed from the table afterwards.
C3_FanOutIsSnapshot ==
    \A k \in 1..Len(fired) :
        LET snap == SnapshotOf(k)
            pending == PendingOf(k)
        IN  /\ taken[k] + Len(pending) = Len(snap)
            /\ \A i \in 1..Len(pending) :
                   /\ taken[k] + i <= Len(snap)
                   /\ pending[i].func = snap[taken[k] + i]

\* A fire whose one-time listener is running and has removed itself, with a
\* listener registered after the fire that got no job from it.
C3_Witness ==
    \E k \in 1..Len(fired) :
        LET snap == SnapshotOf(k)
            now == FireListeners(listeners, fired[k].event_type)
        IN  /\ \E i \in 1..Len(snap) : ~Contains(now, snap[i])
            /\ \E i \in 1..Len(now) : ~Contains(snap, now[i])
            /\ \E w \in Workers : /\ wjob[w].ev = k
                                  /\ wjob[w].func.kind = "once"
                                  /\ wpc[w] = "invoke"
            /\ PendingOf(k) = <<>>

----------------------------------------------------------------------------
(* Claims about the StateMachine. lastOp holds what the last call was      *)
(* given and what the registry held for its entity just before it.         *)

SetReturned == lastOp.op = "set" /\ ~lastOp.raised
SetExisting == lastOp.old # None
SetSameState == SetExisting /\ lastOp.oldRec.state = lastOp.state
SetSameAttr == SetExisting /\ lastOp.oldRec.attributes = lastOp.attributes
SetChanges == ~(SetSameState /\ SetSameAttr)
Stored == heap[states[lastOp.entity_id]]

\* C2: a set call that creates an entity or changes its state or attributes
\* fires exactly one event, a state_changed event whose data holds the
\* entity_id, the newly stored State as new_state and the State it replaced
\* as old_state; old_state is absent exactly when the entity was not in the
\* registry just before the call.
C2_SetFiresOneEvent ==
    (SetReturned /\ SetChanges) =>
        /\ Len(fired) = lastOp.nfired + 1
        /\ lastOp.entity_id \in DOMAIN states
        /\ states[lastOp.entity_id] # lastOp.old
        /\ Stored.state = lastOp.state
        /\ Stored.attributes = lastOp.attributes
        /\ LET ev == fired[Len(fired)]
           IN  /\ ev.event_type = EVENT_STATE_CHANGED
               /\ ev.data["entity_id"] = lastOp.entity_id
               /\ ev.data["new_state"] = states[lastOp.entity_id]
               /\ ("old_state" \in DOMAIN ev.data) <=> SetExisting
               /\ SetExisting => ev.data["old_state"] = lastOp.old

\* A set that creates an entity again after it was removed.
C2_Witness ==
    /\ SetReturned
    /\ ~SetExisting
    /\ lastOp.nfired >= 1
    /\ Len(fired) = lastOp.nfired + 1

\* C7: no State a read operation returned is the object stored in the
\* registry.
C7_ReadsReturnCopies == result \cap Range(states) = {}

\* C8: a set on an existing entity with the stored state and attributes
\* fires no event and leaves the stored State as it was.
C8_SameSetIsNoOp ==
    (lastOp.op = "set" /\ SetSameState /\ SetSameAttr) =>
        /\ ~lastOp.raised
        /\ Len(fired) = lastOp.nfired
        /\ StatesGet(lastOp.entity_id) = lastOp.old
        /\ heap[lastOp.old] = lastOp.oldRec

\* A set of the stored state and attributes, made after the stored State's
\* last update.
C8_Witness ==
    /\ lastOp.op = "set"
    /\ SetSameState
    /\ SetSameAttr
    /\ lastOp.time > lastOp.oldRec.last_updated

\* C9 as claimed: the new State's last_changed equals the previous State's
\* exactly when the entity existed with the same state and different
\* attributes; for a new entity or another state it is the time of the call
\* truncated to whole seconds.
C9_LastChangedIff ==
    (SetReturned /\ SetChanges) =>
        /\ SetExisting =>
               ((Stored.last_changed = lastOp.oldRec.last_changed)
                    <=> (SetSameState /\ ~SetSameAttr))
        /\ ~SetSameState =>
               Stored.last_changed = strip_microseconds(lastOp.time)

\* C9 as amended: the new State's last_changed is the previous State's when
\* the entity existed with the same state and different attributes, and
\* otherwise the time of the call truncated to whole seconds.
C9_LastChanged ==
    (SetReturned /\ SetChanges) =>
        /\ (SetSameState /\ ~SetSameAttr) =>
               Stored.last_changed = lastOp.oldRec.last_changed
        /\ ~SetSameState =>
               Stored.last_changed = strip_microseconds(lastOp.time)

\* A set of other attributes in a later second than the last change.
C9_Witness ==
    /\ SetReturned
    /\ SetSameState
    /\ ~SetSameAttr
    /\ lastOp.oldRec.last_changed # strip_microseconds(lastOp.time)

\* C10 as claimed: after a set call that returned, the stored State's
\* last_updated is the time of that call.
C10_LastUpdatedEverySet ==
    SetReturned => Stored.last_updated = lastOp.time

\* C10 as amended: after a set call that created the entity or changed its
\* state or attributes, the stored State's last_updated is the time of that
\* call; a call that changes neither leaves last_updated as it was.
C10_LastUpdated ==
    SetReturned =>
        IF SetChanges
        THEN Stored.last_updated = lastOp.time
        ELSE Stored.last_updated = lastOp.oldRec.last_updated

\* A set that changed an existing entity after its last update.
C10_Witness ==
    /\ SetReturned
    /\ SetChanges
    /\ SetExisting
    /\ lastOp.time > lastOp.oldRec.last_updated

----------------------------------------------------------------------------
(* Claims about the ServiceRegistry *)

IsRegistered(ev) == hist[ev].handler \in Handlers

IsListening(c) ==
    Contains(Get(listeners, EVENT_SERVICE_EXECUTED), ServiceExecutedListener(c))

C5_Returned ==
    \A c \in 1..Len(callers) :
        callers[c].blocking =>
            /\ callers[c].pc = "done" => callers[c].ret \in {"true", "false"}
            /\ callers[c].ret = "true" => callers[c].observed
            /\ (callers[c].pc = "done" /\ PoolDrained) => ~IsListening(c)

C5_Expired ==
    \A c \in 1..Len(callers) :
        (callers[c].pc = "wait" /\ callers'[c].pc = "cleanup")
            => ~callers[c].observed

\* C5: a blocking call always returns; it returns true only if its listener
\* saw a service_executed event with the call's id, and its wait ends
\* without that only if the listener has seen none; once it has returned and
\* the pool has drained its listener is no longer registered.
C5_BlockingCallReturns ==
    /\ []C5_Returned
    /\ [][C5_Expired]_vars
    /\ \A c \in 1..MaxServiceCalls :
           (c <= Len(callers)) ~> (c <= Len(callers) /\ callers[c].pc = "done")

\* A blocking call that timed out and returned false, whose service was
\* executed afterwards: the listener saw the event and is gone.
C5_Witness ==
    \E c \in 1..Len(callers) :
        /\ callers[c].blocking
        /\ callers[c].pc = "done"
        /\ callers[c].ret = "false"
        /\ callers[c].observed
        /\ PoolDrained
        /\ ~IsListening(c)

HasCallId(c) == callers[c].pc \notin {"load", "store", "format"}

\* C6: the call ids ServiceRegistry.call allocates are pairwise distinct,
\* also for calls made by several threads at once.
C6_CallIdsDistinct ==
    \A c1, c2 \in 1..Len(callers) :
        (c1 # c2 /\ HasCallId(c1) /\ HasCallId(c2))
            => callers[c1].call_id # callers[c2].call_id

----------------------------------------------------------------------------
(* Claims about entity ids *)

IsLowercase(s) == \A i \in 1..Len(s) : s[i] \notin {"A", "B"}

EqualIgnoringCase(s, t) ==
    /\ Len(s) = Len(t)
    /\ \A i \in 1..Len(s) : LowerChar(s[i]) = LowerChar(t[i])

\* Every key of the registry is lowercase and is the entity_id of the State
\* stored under it.
KeysLowercase ==
    \A k \in DOMAIN states :
        /\ IsLowercase(k)
        /\ heap[states[k]].entity_id = k

\* get, is_state and remove act on the entity whose key is the id passed in,
\* whatever its letter case.
AddressedIgnoringCase ==
    /\ lastOp.op \in {"get", "is_state"} =>
           /\ (lastOp.old # None) <=>
                  \E k \in DOMAIN states : EqualIgnoringCase(k, lastOp.input)
           /\ \A k \in DOMAIN states :
                  EqualIgnoringCase(k, lastOp.input) => states[k] = lastOp.old
    /\ lastOp.op = "get" =>
           IF lastOp.old = None THEN result = {}
           ELSE /\ Cardinality(result) = 1
                /\ \A r \in result :
                       /\ heap[r].entity_id = heap[lastOp.old].entity_id
                       /\ heap[r].state = heap[lastOp.old].state
                       /\ heap[r].attributes = heap[lastOp.old].attributes
    /\ lastOp.op = "is_state" =>
           (lastOp.ret <=> \E k \in DOMAIN states :
                              /\ EqualIgnoringCase(k, lastOp.input)
                              /\ heap[states[k]].state = lastOp.state)
    /\ lastOp.op = "remove" =>
           /\ lastOp.ret <=> (lastOp.old # None)
           /\ \A k \in DOMAIN states : ~EqualIgnoringCase(k, lastOp.input)

\* C11: every key of the registry is lowercase, matches <word>.<word> and is
\* the entity_id of the State stored under it; get, is_state and remove
\* address the same entity whatever the letter case of the id passed in.
C11_KeysMatchGrammar ==
    /\ KeysLowercase
    /\ \A k \in DOMAIN states : WordDotWord(k)
    /\ AddressedIgnoringCase

\* A set that raised stored nothing and fired nothing.
RaisedLeavesNothing ==
    (lastOp.op = "set" /\ lastOp.raised) =>
        /\ Len(fired) = lastOp.nfired
        /\ StatesGet(lastOp.entity_id) = lastOp.old
        /\ lastOp.old = None

\* C12: a set with an entity_id that does not match <word>.<word> raises
\* InvalidEntityFormatError to the caller, stores nothing and fires no
\* event.
C12_BadIdRaises ==
    /\ (lastOp.op = "set" /\ ~WordDotWord(lastOp.input)) => lastOp.raised
    /\ RaisedLeavesNothing

----------------------------------------------------------------------------
(* Claims about remove_listener *)

\* `after` is `before` without its first occurrence of l.
RemovedFirst(before, after, l) ==
    \E i \in 1..Len(before) :
        /\ before[i] = l
        /\ \A j \in 1..(i - 1) : before[j] # l
        /\ after = SubSeq(before, 1, i - 1) \o SubSeq(before, i + 1, Len(before))

\* What remove_listener(t, l) makes of the table ls.
RemovePost(ls, ls2, t, l) ==
    IF t \notin DOMAIN ls \/ ~Contains(Get(ls, t), l)
    THEN ls2 = ls
    ELSE /\ DOMAIN ls2 \ {t} = DOMAIN ls \ {t}
         /\ \A k \in DOMAIN ls \ {t} : ls2[k] = ls[k]
         /\ IF Len(ls[t]) = 1
            THEN t \notin DOMAIN ls2
            ELSE /\ t \in DOMAIN ls2
                 /\ RemovedFirst(ls[t], ls2[t], l)

C13_Step ==
    /\ \A t \in BusListenTypes :
           RemoveListener(t) =>
               /\ RemovePost(listeners, listeners', t, PlainListener)
               /\ queue' = queue
               /\ fired' = fired
    /\ \A w \in Workers :
           OnceRemove(w) =>
               RemovePost(listeners, listeners', onceType[wjob[w].func.id],
                          wjob[w].func)
    /\ \A t \in BusEventTypes :
           (/\ Fire(t)
            /\ ~Contains(Get(listeners, MATCH_ALL), PlainListener)
            /\ ~Contains(Get(listeners, t), PlainListener))
               => \A i \in 1..Len(queue') :
                      queue'[i].func = PlainListener => queue'[i].ev <= Len(fired)

\* C13: remove_listener(event_type, l) removes the first occurrence of l in
\* listeners[event_type] and nothing else, and drops the bucket if that
\* empties it; with l or event_type not registered it changes nothing; a
\* fire while l is not registered enqueues no job for l.
C13_RemoveListener == [][C13_Step]_vars

\* Two fires of one event type: the first found the listener registered,
\* the second, after its removal, did not and enqueued no job for it.
C13_Witness ==
    \E k1, k2 \in 1..Len(fired) :
        /\ k1 < k2
        /\ fired[k1].event_type = fired[k2].event_type
        /\ Contains(SnapshotOf(k1), PlainListener)
        /\ ~Contains(SnapshotOf(k2), PlainListener)
        /\ taken[k2] = 0
        /\ PendingOf(k2) = <<>>

----------------------------------------------------------------------------
(* Claims about the order of jobs *)

Running(w) == wpc[w] # "idle"

\* The jobs of fire k are taken in the order of its listeners: those still
\* pending are the rest of the sequence, in order and at the event type's
\* priority, and the job the one worker runs is the last one taken.
C14_InOrder ==
    \A k \in 1..Len(fired) :
        LET snap == SnapshotOf(k)
            pending == PendingOf(k)
        IN  /\ taken[k] + Len(pending) = Len(snap)
            /\ \A i \in 1..Len(pending) :
                   /\ pending[i].func = snap[taken[k] + i]
                   /\ pending[i].prio = from_event_type(fired[k].event_type)
            /\ (Running(1) /\ wjob[1].ev = k) =>
                   /\ taken[k] >= 1
                   /\ wjob[1].func = snap[taken[k]]

\* listen appends: a bucket is in registration order, and a listener
\* registered twice is in it twice.
C14_ListenAppends ==
    \A t \in PriorityListenTypes :
        Listen(t) => /\ t \in DOMAIN listeners'
                     /\ listeners'[t] = Append(Get(listeners, t), PlainListener)
                     /\ \A u \in DOMAIN listeners \ {t} :
                            u \in DOMAIN listeners' /\ listeners'[u] = listeners[u]

\* C14: within one fire the jobs are enqueued for the MATCH_ALL listeners in
\* registration order, then for the event type's listeners in registration
\* order, a listener registered twice getting two jobs, all at the priority
\* of the event type; a single worker runs them in that order.
C14_FireOrder == []C14_InOrder /\ [][C14_ListenAppends]_vars

\* A fire that found a MATCH_ALL listener and a listener registered twice
\* for its type; the worker runs the last of its three jobs.
C14_Witness ==
    \E k \in 1..Len(fired) :
        LET t == fired[k].event_type
        IN  /\ Get(snapshot[k], MATCH_ALL) # <<>>
            /\ Len(Get(snapshot[k], t)) = 2
            /\ Get(snapshot[k], t)[1] = Get(snapshot[k], t)[2]
            /\ Get(snapshot[k], MATCH_ALL)[1] # Get(snapshot[k], t)[1]
            /\ taken[k] = 3
            /\ Running(1)
            /\ wjob[1].ev = k

\* The order of the event types: service_executed before call_service
\* before state_changed before time_changed before every other type.
Rank(event_type) ==
    CASE event_type = EVENT_SERVICE_EXECUTED -> 1
      [] event_type = EVENT_CALL_SERVICE -> 2
      [] event_type = EVENT_STATE_CHANGED -> 3
      [] event_type = EVENT_TIME_CHANGED -> 4
      [] OTHER -> 5

JobRank(job) == Rank(fired[job.ev].event_type)

\* The pending jobs are in the order of their event types' ranks, and in
\* the order of their fires within a rank.
C15_QueueOrdered ==
    \A i, j \in 1..Len(queue) :
        i < j => \/ JobRank(queue[i]) < JobRank(queue[j])
                 \/ /\ JobRank(queue[i]) = JobRank(queue[j])
                    /\ queue[i].ev <= queue[j].ev

\* The job a worker takes is no less urgent than any job left pending.
C15_TakesMostUrgent ==
    \A w \in Workers :
        TakeJob(w) =>
            \A i \in 1..Len(queue') : JobRank(wjob'[w]) <= JobRank(queue'[i])

\* C15: when the job of a more urgent event is enqueued while a job of a
\* less urgent event is pending and no worker is free, the worker that
\* becomes available takes the more urgent job first.
C15_PriorityOrder == []C15_QueueOrdered /\ [][C15_TakesMostUrgent]_vars

\* A worker runs the job of a state_changed event while the job of a
\* time_changed event that was fired earlier is still pending; the other
\* worker is still busy with the job of an event fired before both.
C15_Witness ==
    \E w \in Workers, i \in 1..Len(queue) :
        /\ Running(w)
        /\ fired[wjob[w].ev].event_type = EVENT_STATE_CHANGED
        /\ fired[queue[i].ev].event_type = EVENT_TIME_CHANGED
        /\ queue[i].ev < wjob[w].ev
        /\ taken[queue[i].ev] = 0
        /\ \A v \in Workers \ {w} : Running(v) /\ wjob[v].ev < queue[i].ev

----------------------------------------------------------------------------
(* Claims about exceptions in jobs *)

WorkersAlive == \A w \in Workers : wpc[w] \in {"idle", "start"}

\* Once the pool has drained every job of every fire has been run.
DrainedRanAll ==
    PoolDrained => \A k \in 1..Len(fired) : taken[k] = Len(SnapshotOf(k))

\* C17: an exception raised by a listener is caught by the worker that runs
\* it: the worker stays alive and takes the next job, and every job that was
\* enqueued is run.
C17_ExceptionsCaught ==
    /\ []WorkersAlive
    /\ []DrainedRanAll
    /\ []<>PoolDrained

\* A fire whose first listener raised and whose second listener ran after
\* it, with both workers free again.
C17_Witness ==
    \E k \in 1..Len(fired) :
        /\ Len(SnapshotOf(k)) >= 2
        /\ SnapshotOf(k)[1] = FailingListener
        /\ SnapshotOf(k)[2] = PlainListener
        /\ taken[k] = Len(SnapshotOf(k))
        /\ PoolDrained

----------------------------------------------------------------------------
(* Claims about unknown services *)

\* The call_service events that were dispatched while their service was not
\* registered.
Dropped == {ev \in DOMAIN hist : ~IsRegistered(ev)}

CallIdOf(ev) == fired[ev].data["service_call_id"]

\* C18: a call_service event dispatched while its service is not registered
\* is dropped: no handler job is enqueued or run for it and no
\* service_executed event carries its id; a blocking call whose event was
\* dropped is never signalled and does not return true.
C18_UnknownServiceDropped ==
    /\ \A ev \in Dropped :
           /\ hist[ev].runs = 0
           /\ hist[ev].executed = <<>>
           /\ \A i \in 1..Len(queue) :
                  ~(queue[i].func.kind = "exec" /\ queue[i].ev = ev)
           /\ \A w \in Workers :
                  ~(wjob[w].func.kind = "exec" /\ wjob[w].ev = ev)
           /\ \A k \in 1..Len(fired) :
                  fired[k].event_type = EVENT_SERVICE_EXECUTED =>
                      CallIdOf(k) # CallIdOf(ev)
    /\ \A c \in 1..Len(callers), ev \in Dropped :
           (callers[c].blocking /\ CallIdOf(ev) = callers[c].call_id) =>
               /\ ~callers[c].gate
               /\ ~callers[c].observed
               /\ callers[c].ret # "true"
               /\ callers[c].pc = "done" => callers[c].ret = "false"

\* A blocking call of the unregistered service that has returned false after
\* its event was dropped; the pool has drained.
C18_Witness ==
    \E c \in 1..Len(callers), ev \in Dropped :
        /\ callers[c].blocking
        /\ CallIdOf(ev) = callers[c].call_id
        /\ callers[c].pc = "done"
        /\ callers[c].ret = "false"
        /\ PoolDrained

----------------------------------------------------------------------------
(* Claims about track_point_in_time *)

\* A time_changed event at or after the point was fired while the wrapper
\* was registered.
DueFired(l) ==
    \E k \in 1..Len(fired) :
        /\ fired[k].event_type = EVENT_TIME_CHANGED
        /\ Contains(SnapshotOf(k), l)
        /\ fired[k].data[ATTR_NOW] >= l.point_in_time

PointInvokedOnlyWhenDue ==
    \A n \in 1..Len(onceCalls), t \in PointInputs :
        onceCalls[n] >= 1 => DueFired(PointListener(n, t))

PointRemovedAfterDrain ==
    \A n \in 1..Len(onceCalls), t \in PointInputs :
        (PoolDrained /\ DueFired(PointListener(n, t))) =>
            /\ onceCalls[n] >= 1
            /\ ~Contains(Get(listeners, EVENT_TIME_CHANGED), PointListener(n, t))

\* C19: the action of track_point_in_time(action, t) is invoked exactly
\* once, on a time_changed event whose now is at or after t, however the
\* workers interleave the time_changed dispatches; once it was invoked and
\* the pool has drained its listener is no longer registered.
C19_PointExactlyOnce ==
    /\ \A n \in 1..Len(onceCalls) : onceCalls[n] <= 1
    /\ PointInvokedOnlyWhenDue
    /\ PointRemovedAfterDrain

----------------------------------------------------------------------------
(* Claims about track_change *)

\* Fire k found l registered and l's job for it has been run.
JobFinished(k, l) ==
    /\ fired[k].event_type = EVENT_STATE_CHANGED
    /\ Contains(SnapshotOf(k), l)
    /\ \A i \in 1..Len(queue) : ~(queue[i].ev = k /\ queue[i].func = l)
    /\ \A w \in Workers : ~(wjob[w].ev = k /\ wjob[w].func = l)

Invoked(k, l) == \E c \in actionCalls : c.id = l.id /\ c.ev = k

\* A value matches a parameter: the parameter stands for MATCH_ALL, or the
\* value is one of its items.
MatchesParam(has_value, value, parameter) ==
    \/ parameter.type = "none"
    \/ parameter = ParamStr(MATCH_ALL)
    \/ has_value /\ \E i \in 1..Len(parameter.items) : parameter.items[i] = value

HasOld(k) == "old_state" \in DOMAIN fired[k].data

OldValue(k) == IF HasOld(k) THEN heap[fired[k].data["old_state"]].state ELSE ""

ShouldInvoke(k, entity_ids, from_state, to_state) ==
    /\ \E i \in 1..Len(entity_ids.items) :
           Lower(entity_ids.items[i]) = fired[k].data["entity_id"]
    /\ MatchesParam(HasOld(k), OldValue(k), from_state)
    /\ MatchesParam(TRUE, heap[fired[k].data["new_state"]].state, to_state)

\* C20: the listener of track_change invokes its action for a state_changed
\* event exactly when the event's entity id is in the lowercased tracked
\* set, the old state's value matches from_state and the new state's value
\* matches to_state, with the event's entity id, old state and new state as
\* arguments; for a newly created entity a from_state that is a set of
\* values does not match.
C20_TrackChangeMatches ==
    /\ \A c \in actionCalls :
           /\ c.entity_id = fired[c.ev].data["entity_id"]
           /\ c.new_state = fired[c.ev].data["new_state"]
           /\ c.old_state = IF HasOld(c.ev) THEN fired[c.ev].data["old_state"]
                            ELSE None
           /\ \E i \in 1..Len(SnapshotOf(c.ev)) : SnapshotOf(c.ev)[i].id = c.id
    /\ \A k \in 1..Len(fired) :
           \A i \in 1..Len(SnapshotOf(k)) :
               LET l == SnapshotOf(k)[i]
               IN  \A f \in FromInputs :
                   l.from_state = _process_match_param(f) =>
                   \A t \in ToInputs :
                   l.to_state = _process_match_param(t) =>
                   \A e \in TrackedInputs :
                   l.entity_ids = TrackedIds(e) =>
                       /\ Invoked(k, l) <=>
                              (JobFinished(k, l) /\ ShouldInvoke(k, e, f, t))
                       /\ (~HasOld(k) /\ f.type # "none"
                                      /\ f # ParamStr(MATCH_ALL))
                              => ~Invoked(k, l)
    /\ \A n \in 1..Len(onceCalls) :
           onceCalls[n] = Cardinality({c \in actionCalls : c.id = n})

\* One listener with a from_state set has finished two jobs: for the event
\* that created its entity it did not invoke the action, for the change that
\* followed it did, with the old state.
C20_Witness ==
    \E k1, k2 \in 1..Len(fired), n \in 1..Len(onceCalls), e \in TrackedInputs,
       f \in FromInputs, t \in ToInputs :
        LET l == StateListener(n, e, f, t)
        IN  /\ f.type = "list"
            /\ JobFinished(k1, l) /\ ~HasOld(k1) /\ ~Invoked(k1, l)
            /\ ShouldInvoke(k1, e, ParamNone, t)
            /\ JobFinished(k2, l) /\ HasOld(k2) /\ Invoked(k2, l)

----------------------------------------------------------------------------
(* Claims about stop *)

\* C21: when stop tells the pool to stop, it has fired homeassistant_stop
\* and every job enqueued for that event has finished: none was pending and
\* none was inside a worker.
C21_StopAfterDrain ==
    /\ ~pool_running => main = "stopped" /\ Len(stopLog) = 1
    /\ \A i \in 1..Len(stopLog) :
           /\ \E k \in 1..Len(stopLog[i]) :
                  stopLog[i][k].event_type = EVENT_HOMEASSISTANT_STOP
           /\ \A k \in 1..Len(stopLog[i]) :
                  stopLog[i][k].event_type = EVENT_HOMEASSISTANT_STOP
                      => stopLog[i][k].unfinished = 0

\* The pool was told to stop after two listeners' jobs for homeassistant_stop
\* had run, while a job of a later event was still unfinished.
C21_Witness ==
    /\ ~pool_running
    /\ \E k \in 1..Len(stopLog[1]) :
           /\ stopLog[1][k].event_type = EVENT_HOMEASSISTANT_STOP
           /\ Len(SnapshotOf(k)) = 2
    /\ \E k \in 1..Len(stopLog[1]) : stopLog[1][k].unfinished > 0

----------------------------------------------------------------------------
(* Claims about block_till_stopped *)

\* A call of homeassistant.stop whose event has not been dispatched yet or
\* was dispatched to the registered handler.
StopServiceCalled ==
    \E k \in 1..Len(fired) :
        /\ fired[k].event_type = EVENT_CALL_SERVICE
        /\ fired[k].data["service"] = SERVICE_HOMEASSISTANT_STOP
        /\ k \in DOMAIN hist => hist[k].handler = ShutdownHandler

StopExecuted ==
    /\ main = "stopped"
    /\ ~pool_running
    /\ \E k \in 1..Len(fired) : fired[k].event_type = EVENT_HOMEASSISTANT_STOP

\* C22: while a thread is in the loop of block_till_stopped, a call of the
\* service homeassistant.stop leads to the gate being set, the loop being
\* left and stop being executed: homeassistant_stop fired and the pool
\* stopped.
C22_StopServiceStops ==
    (main = "loop" /\ StopServiceCalled) ~> (request_shutdown /\ StopExecuted)

\* The handler has set the gate and stop has run to its end.
C22_Witness ==
    /\ request_shutdown
    /\ StopExecuted
    /\ \E k \in DOMAIN hist :
           hist[k].handler = ShutdownHandler /\ Len(hist[k].executed) = 1

----------------------------------------------------------------------------
(* Claims about the Timer *)

TimeChanged == {k \in 1..Len(fired) : fired[k].event_type = EVENT_TIME_CHANGED}

NowOf(k) == fired[k].data[ATTR_NOW]

\* C24: every time_changed event the Timer fires carries a now whose second
\* is divisible by the Timer's interval, whatever the interval and however
\* long a sleep overshoots.
C24_NowAligned ==
    \A k \in TimeChanged : Second(NowOf(k)) % timer.interval = 0

\* C25: the Timer never fires two time_changed events within one second of
\* the wall clock: of two consecutive events the later one's now lies in a
\* later second. A sleep never ends early.
C25_OncePerSecond ==
    \A j, k \in TimeChanged :
        j < k => NowOf(j) \div TimerTicksPerSecond < NowOf(k) \div TimerTicksPerSecond

\* Two events were fired one second apart, the second one without a sleep.
C25_Witness ==
    \E j, k \in TimeChanged :
        /\ j < k
        /\ NowOf(k) \div TimerTicksPerSecond = NowOf(j) \div TimerTicksPerSecond + 1
        /\ NowOf(k) - NowOf(j) < TimerTicksPerSecond

StartDispatched ==
    \E k \in 1..Len(fired) :
        fired[k].event_type = EVENT_HOMEASSISTANT_START /\ taken[k] > 0

StopFired ==
    \E k \in 1..Len(fired) : fired[k].event_type = EVENT_HOMEASSISTANT_STOP

\* The Timer fires only after homeassistant_start was dispatched.
TimerFiresAfterStart == (TimeChanged # {} \/ timer.pc # "unstarted") => StartDispatched

\* Once homeassistant_stop was fired the Timer thread leaves its loop.
TimerStopsAfterStop == StopFired ~> (timer.pc = "exited")

\* C26: the Timer thread fires only after homeassistant_start was
\* dispatched, and once homeassistant_stop has been fired it leaves its loop
\* and fires no more, however its startup, where it registers its stop
\* listener, interleaves with the fire of homeassistant_stop.
C26_TimerLife == []TimerFiresAfterStart /\ TimerStopsAfterStop

----------------------------------------------------------------------------
(* Claims about the locks *)

\* C23: the jobs of two fires are never interleaved in the order of
\* add_job: between two jobs of one event no job of another event is
\* enqueued, whether the fires follow each other or run in two threads.
C23_FiresNotInterleaved ==
    \A i, j, l \in 1..Len(enq) :
        (i < j /\ j < l /\ enq[i] = enq[l]) => enq[j] = enq[i]

\* A thread has enqueued the first of its two jobs while another thread,
\* inside a fire of the same event type, waits for the bus lock.
C23_Witness ==
    \E t, u \in Threads :
        /\ t # u
        /\ thr[t].pc = "add"
        /\ Len(thr[t].pending) = 1
        /\ enq # <<>>
        /\ enq[Len(enq)] = thr[t].pending[1].ev
        /\ thr[u].pc = "fire"
        /\ thr[u].event_type = thr[t].event_type

Holds(t) == {l \in {"bus", "sm", "svc"} : locks[l] = t}

\* The lock a thread is waiting for.
WaitsForBus(t) == thr[t].pc = "fire" /\ locks.bus # NoThread

WaitsForRegistry(w) ==
    wpc[w] = "start" /\ wjob[w].func.kind = "e2s" /\ locks.svc # NoThread

\* Locks are nested only as StateMachine lock then bus lock and registry lock
\* then bus lock; whoever holds the bus lock is adding jobs and waits for
\* nothing; a lock is held only by a thread inside the call that took it;
\* a worker enters a listener holding no lock.
LockOrder ==
    /\ \A t \in Threads :
           /\ Holds(t) \subseteq
                  (IF thr[t].pc = "add" THEN {"bus"} ELSE {})
                  \cup (IF thr[t].pc \in {"fire", "add", "unlock"}
                           /\ thr[t].outer # "none"
                        THEN {thr[t].outer} ELSE {})
           /\ ~({"sm", "svc"} \subseteq Holds(t))
    /\ \A l \in {"bus", "sm", "svc"} : locks[l] \in Threads \cup {NoThread}
    /\ \A w \in Workers : wpc[w] = "start" => Holds(WorkerThread(w)) = {}

\* Nobody waits for a lock whose holder waits too or is outside any call.
NoWaitCycle ==
    /\ \A t \in Threads : WaitsForBus(t) => thr[locks.bus].pc = "add"
    /\ \A w \in Workers :
           WaitsForRegistry(w) =>
               /\ thr[locks.svc].pc \in {"fire", "add", "unlock"}
               /\ WaitsForBus(locks.svc) => thr[locks.bus].pc = "add"

\* No thread is inside a call and no worker holds a job.
AllCallsDone ==
    /\ \A t \in Threads : thr[t].pc = "idle"
    /\ \A w \in Workers : wpc[w] = "idle"
    /\ queue = <<>>

\* C27: the three locks never deadlock. They are nested only as
\* StateMachine lock then bus lock and registry lock then bus lock, the bus
\* lock is never held while another lock is taken, listeners run on workers
\* that hold no lock, and every call of set, register, call, fire, listen
\* and remove_listener, from a caller or from a listener, completes: once
\* the callers have made their calls, every call has returned and every
\* job has run.
C27_NoDeadlock ==
    /\ [](LockOrder /\ NoWaitCycle)
    /\ <>[]AllCallsDone

\* One thread holds the StateMachine lock and the bus lock while another,
\* holding the registry lock, waits for the bus lock.
C27_Witness ==
    \E t, u \in Threads :
        /\ Holds(t) = {"sm", "bus"}
        /\ Holds(u) = {"svc"}
        /\ WaitsForBus(u)

\* The state_changed events of an entity, in the order they were created.
EventsOf(e) ==
    {k \in 1..Len(fired) : /\ fired[k].event_type = EVENT_STATE_CHANGED
                           /\ fired[k].data["entity_id"] = e}

Consecutive(e, j, k) ==
    /\ j \in EventsOf(e) /\ k \in EventsOf(e) /\ j < k
    /\ \A m \in EventsOf(e) : ~(j < m /\ m < k)

\* e was removed after event j was created and before event k was (k = 0:
\* at any time after j).
RemovedBetween(e, j, k) ==
    \E i \in 1..Len(mutLog) :
        /\ mutLog[i].op = "remove" /\ mutLog[i].entity_id = e
        /\ j <= mutLog[i].nfired
        /\ k # 0 => mutLog[i].nfired < k

Entities == {Lower(e) : e \in LockEntityIds}

\* C28: the state_changed events of an entity are created and enqueued in
\* the order the sets were applied: of two consecutive events with no remove
\* between them the later one's old_state is the earlier one's new_state,
\* and while no set is under way and the entity was not removed since, the
\* last event's new_state is the State stored.
C28_EventsInMutationOrder ==
    /\ \A i, j \in 1..Len(enq) : i < j => enq[i] <= enq[j]
    /\ \A e \in Entities :
           /\ \A j, k \in EventsOf(e) :
                  (Consecutive(e, j, k) /\ ~RemovedBetween(e, j, k)) =>
                      /\ "old_state" \in DOMAIN fired[k].data
                      /\ fired[k].data["old_state"] = fired[j].data["new_state"]
           /\ \A k \in EventsOf(e) :
                  (/\ \A m \in EventsOf(e) : m <= k
                   /\ locks.sm = NoThread
                   /\ \A t \in Threads : thr[t].outer # "sm"
                   /\ ~RemovedBetween(e, k, 0)) =>
                      /\ e \in DOMAIN states
                      /\ states[e] = fired[k].data["new_state"]

\* Two sets by two threads changed the entity one after the other: both
\* events were created and their jobs enqueued.
C28_Witness ==
    \E e \in Entities : \E j, k \in EventsOf(e) :
        /\ Consecutive(e, j, k)
        /\ ~RemovedBetween(e, j, k)
        /\ fired[k].data["old_state"] = fired[j].data["new_state"]
        /\ states[e] = fired[k].data["new_state"]
        /\ locks.sm = NoThread
        /\ \E i, l \in 1..Len(enq) : enq[i] = j /\ enq[l] = k

====
